---- MODULE Spec2Model ----
(***************************************************************************)
(* aricanduva: an S3-compatible gateway in front of an IPFS node.          *)
(* The model covers the object service (PutObject, DeleteObject and their  *)
(* background orphan checks), the local index (src/database.rs), the IPFS  *)
(* client calls (src/ipfs.rs) and the multipart registry                   *)
(* (src/limited_slots.rs, src/s3/post_object.rs), GetObject                 *)
(* (src/s3/get_object.rs), the SigV4 layer with its streaming bodies       *)
(* (src/s3/authorization.rs) and the routing around them (src/main.rs,     *)
(* src/s3/mod.rs).                                                         *)
(* Every await point of a handler is one step, so that requests and        *)
(* spawned tasks interleave exactly where the tokio runtime lets them.     *)
(***************************************************************************)
EXTENDS Integers, Sequences, FiniteSets, TLC

\* ------------------------------------------------------------------ bounds
\* Number of object requests (PutObject / DeleteObject) of one behaviour.
MaxRequests == 3
\* Number of injected failures of index or IPFS calls in one behaviour.
MaxFaults == 1
\* Number of multipart requests (Create, UploadPart, Complete, Abort).
MaxMultipartOps == 5
\* How far above the requested size the registry's map may round its capacity.
CapSlack == 1
\* Number of times the clock of the index advances in one behaviour.
MaxClock == 1
\* cli.rs concurrent_multipart_upload (default 10), kept small here.
concurrent_multipart_upload == 2

\* ------------------------------------------------------------------ inputs
Buckets == {"b1", "b2"}
\* An object key is the sequence of the segments of the {*key} path capture.
GoodKeys == {<<"a", "x">>}
BadKeys == {<<"..", "x">>}
Keys == GoodKeys \cup BadKeys
\* Request bodies: byte strings.
Bodies == {<<1>>, <<2>>}
\* The Content-Type request header, or its absence.
NoHeader == "no-header"
ContentTypes == {NoHeader, "text/plain"}

\* cli.rs: folder_prefix default.
folder_prefix == "buckets"

NoRow == [none |-> TRUE]
PathError == <<"CheckedPathError">>

\* ------------------------------------------------------------------ names
\* The IPFS node is content addressed: the CID is a function of the bytes,
\* and different bytes get different CIDs.
CidOf(body) == <<"cid", body>>

\* s3/mod.rs etag_value: format!("W/{cid}")
etag_value(cid) == <<"W/", cid>>

\* Key segments that hold a NUL byte.
HasNul(seg) == seg \in {"a<NUL>"}

\* typed_path push_checked on the components of the pushed path: "." and
\* empty components are skipped, a ".." needs a preceding normal component
\* of the same push to step back from, a normal component must not hold a
\* byte that no file name can hold; cnt counts the normal components of
\* the push that are not stepped back from.
RECURSIVE push_check(_, _)
push_check(segs, cnt) ==
  IF segs = <<>> THEN TRUE
  ELSE IF Head(segs) \in {"", "."} THEN push_check(Tail(segs), cnt)
  ELSE IF Head(segs) = ".." THEN cnt > 0 /\ push_check(Tail(segs), cnt - 1)
  ELSE ~HasNul(Head(segs)) /\ push_check(Tail(segs), cnt + 1)

\* A pushed path that starts with "/" (a first empty segment) has a root
\* component and is refused.
push_checked(segs) ==
  /\ ~(segs # <<>> /\ Head(segs) = "")
  /\ push_check(segs, 0)

\* UnixPathBuf::normalize: "." dropped, ".." steps back one component.
RECURSIVE normalize(_, _)
normalize(segs, acc) ==
  IF segs = <<>> THEN acc
  ELSE IF Head(segs) \in {"", "."} THEN normalize(Tail(segs), acc)
  ELSE IF Head(segs) = ".."
    THEN normalize(Tail(segs),
                   IF acc = <<>> THEN acc ELSE SubSeq(acc, 1, Len(acc) - 1))
  ELSE normalize(Tail(segs), Append(acc, Head(segs)))

\* s3/mod.rs normalized_path: "/" then checked pushes of prefix, bucket and
\* key, then normalize.
normalized_path(start, bucket, key) ==
  IF push_checked(<<start>>) /\ push_checked(<<bucket>>) /\ push_checked(key)
  THEN normalize(<<start, bucket>> \o key, <<>>)
  ELSE PathError

\* mime_guess::from_path(key).first_or_octet_stream(): by the extension of
\* the last segment; the keys of the model carry the extension as a suffix
\* segment name listed here.
OctetStream == "application/octet-stream"
mime_guess(key) ==
  IF key # <<>> /\ key[Len(key)] \in {"x.txt", "y.txt"} THEN "text/plain"
  ELSE OctetStream

\* ------------------------------------------------------------------ state
VARIABLES
  config,    \* RunConfig, immutable after load
  index,     \* the metadata table: a set of rows, (bucket, key) unique
  now,       \* the clock of the index (the timestamp a statement gets)
  mfs,       \* MFS of the IPFS node: set of [path, cid] file entries
  pinned,    \* pin set of the IPFS node
  req,       \* the requests: inputs, position, locals, response
  nreq,      \* requests received so far
  faults,    \* failures injected so far
  everLive,  \* CIDs that some index row has referenced (history)
  slots,     \* multipart_slots: upload id -> (part number -> bytes)
  capacity,  \* capacity() of the DashMap behind multipart_slots
  creating,  \* CreateMultipartUploads between check_capacity and insert
  nupload,   \* upload ids issued so far
  nmp,       \* multipart requests received so far
  uploaded,  \* per open upload, the UploadParts answered 200, in order (history)
  mlog,      \* the responses to the two latest multipart requests (history)
  resp       \* the latest response of a layer or of a handler that only reads

mpvars == <<slots, capacity, creating, nupload, nmp, uploaded, mlog>>
vars == <<config, index, now, mfs, pinned, req, nreq, faults, everLive, mpvars, resp>>

NoCid == <<"no-cid">>
\* The upload id of a request that is no CompleteMultipartUpload, and an
\* upload id the service never issued.
NoUpload == 0

\* No directory-trim task was spawned by the request.
NoTask == [none |-> TRUE]

IdleReq ==
  [op |-> "idle", bucket |-> "", key |-> <<>>, body |-> <<>>, header |-> NoHeader,
   pc |-> "idle", content_type |-> "", path |-> <<>>, old |-> NoRow,
   cid |-> NoCid, remaining |-> -1, status |-> 0, etag |-> <<>>, roots |-> NoCid,
   calls |-> <<>>, open |-> {}, busy |-> {}, via |-> NoUpload, parts_log |-> <<>>,
   stored_at |-> 0, stored |-> NoRow, ipfs_path |-> <<>>, unpin |-> "none",
   cancelled |-> FALSE, task |-> NoTask]

Ids == 1..MaxRequests

\* What a request finds on arrival (history): the earlier requests whose
\* handler has not responded yet, and those whose handler or spawned task
\* is still running.
OpenAt(rq) == {i \in DOMAIN rq : rq[i].op # "idle" /\ rq[i].status = 0}
BusyAt(rq) == {i \in DOMAIN rq : rq[i].op # "idle" /\ rq[i].pc # "done"}

\* ------------------------------------------------------------------ index
\* A variant whose WHERE clause leaves out the bucket.
get_object_by_key(idx, bucket, key) ==
  IF \E r \in idx : r.key = key
  THEN CHOOSE r \in idx : r.key = key
  ELSE NoRow

\* database.rs get_object_metadata: SELECT ... WHERE bucket = ? AND object_key = ?
get_object_metadata(idx, bucket, key) ==
  IF \E r \in idx : r.bucket = bucket /\ r.key = key
  THEN CHOOSE r \in idx : r.bucket = bucket /\ r.key = key
  ELSE NoRow

\* A variant whose conflict clause keeps the existing row (DO NOTHING).
insert_or_ignore(idx, bucket, key, cid, size, content_type, ts) ==
  IF \E r \in idx : r.bucket = bucket /\ r.key = key THEN idx
  ELSE idx \cup {[bucket |-> bucket, key |-> key, cid |-> cid, size |-> size,
                  content_type |-> content_type, updated_at |-> ts]}

\* database.rs store_object_metadata: INSERT ... ON CONFLICT DO UPDATE SET
\* cid, size, content_type, updated_at (PRIMARY KEY (bucket, object_key)).
store_object_metadata(idx, bucket, key, cid, size, content_type, ts) ==
  {r \in idx : ~(r.bucket = bucket /\ r.key = key)}
    \cup {[bucket |-> bucket, key |-> key, cid |-> cid, size |-> size,
           content_type |-> content_type, updated_at |-> ts]}

\* A variant that deletes the rows of the key in every bucket.
delete_object_row_any_bucket(idx, metadata) ==
  {r \in idx : r.key # metadata.key}

\* database.rs delete_object: DELETE FROM metadata WHERE bucket = ? AND object_key = ?
delete_object_row(idx, metadata) ==
  {r \in idx : ~(r.bucket = metadata.bucket /\ r.key = metadata.key)}

\* database.rs cid_count: SELECT COUNT(1) FROM metadata WHERE cid = ?
cid_count(idx, cid) == Cardinality({r \in idx : r.cid = cid})

\* ------------------------------------------------------------------ IPFS
IsPrefix(p, q) == Len(p) <= Len(q) /\ SubSeq(q, 1, Len(p)) = p

\* ipfs.rs add_content, second call: files cp /ipfs/{cid} dest, parents, force.
files_cp(m, path, cid) ==
  {e \in m : e.path # path} \cup {[path |-> path, cid |-> cid]}

\* ipfs.rs unlink: files rm path, recursive. The node refuses a missing path.
files_rm_ok(m, path) == \E e \in m : IsPrefix(path, e.path)
files_rm(m, path) == {e \in m : ~IsPrefix(path, e.path)}

\* ipfs.rs unpin: pin rm cid, recursive. The node refuses a CID it has not pinned.
pin_rm_ok(pins, cid) == cid \in pins
pin_rm(pins, cid) == pins \ {cid}

\* ------------------------------------------------------------------ registry
\* main.rs 121-123, limited_slots.rs 20-22: DashMap::with_capacity(size).
\* The map allocates at least the requested capacity: it rounds the size up
\* to a multiple of its shard count and each shard's table to the next size
\* its allocator supports, so capacity() is size or more.
with_capacity(size) ==
  IF size = 0 THEN {0} ELSE size..(size + CapSlack)

\* limited_slots.rs 24-30.
check_capacity(len, cap) == len < cap

\* ------------------------------------------------------------------ configuration
\* cli.rs 13-17.
OperationMode == {"proxy", "redirect", "auto"}

\* An http::Uri by its parts: scheme and authority ("" when absent) and
\* the segments of the path (NoPath when there is no path and query part).
NoPath == <<"no-path">>
Uri(scheme, authority, path) ==
  [scheme |-> scheme, authority |-> authority, path |-> path]
\* cli.rs 93: the default gateway.
DwebLink == Uri("https", "dweb.link", <<>>)
\* The gateway flag (cli.rs 93-96): the default, a gateway below a path, and
\* a host and port without scheme, which http::Uri parses as an authority.
Gateways ==
  {DwebLink,
   Uri("https", "gw.example", <<"base">>),
   Uri("", "gw.example:8080", NoPath)}

\* An IPv4 address is its four octets; a network is a base address and a
\* prefix length.
Net(a, b, c, d, len) == [addr |-> <<a, b, c, d>>, len |-> len]
Pow2(n) == IF n = 0 THEN 1 ELSE IF n = 1 THEN 2 ELSE IF n = 2 THEN 4
           ELSE IF n = 3 THEN 8 ELSE IF n = 4 THEN 16 ELSE IF n = 5 THEN 32
           ELSE IF n = 6 THEN 64 ELSE IF n = 7 THEN 128 ELSE 256
\* IpNet::contains: the first len bits of the address are those of the
\* network.
contains(net, ip) ==
  LET whole == net.len \div 8
      rest == net.len % 8
  IN /\ \A i \in 1..whole : ip[i] = net.addr[i]
     /\ rest # 0 =>
          ip[whole + 1] \div Pow2(8 - rest) = net.addr[whole + 1] \div Pow2(8 - rest)

\* cli.rs 43-46: --private-cidrs, none by default.
PrivateCidrs == {<<>>, <<Net(8, 8, 8, 0, 24)>>}

\* cli.rs auth: access_key and secret_key, or absent.
NoAuth == [none |-> TRUE]
AuthConfig == [access_key |-> <<"A", "K">>, secret_key |-> <<"S", "K">>]

NoResponse == [by |-> "none"]

\* ------------------------------------------------------------------ Init
\* cli.rs 25-104: the configuration is any the flags can give.
Init ==
  /\ config \in [auto_mime : BOOLEAN,
                  trim_empty_folders : BOOLEAN,
                  concurrent_multipart_upload : {concurrent_multipart_upload},
                  mode : OperationMode,
                  gateway : Gateways,
                  private_cidrs : PrivateCidrs,
                  auth : {NoAuth, AuthConfig}]
  /\ index = {}
  /\ now = 0
  /\ mfs = {}
  /\ pinned = {}
  /\ req = [i \in Ids |-> IdleReq]
  /\ nreq = 0
  /\ faults = 0
  /\ everLive = {}
  /\ slots = <<>>
  /\ capacity \in with_capacity(config.concurrent_multipart_upload)
  /\ creating = <<>>
  /\ nupload = 0
  /\ nmp = 0
  /\ uploaded = <<>>
  /\ mlog = <<>>
  /\ resp = NoResponse

\* cli.rs 34-37: the directory trimmer is switched off.
NoTrim == config.trim_empty_folders = FALSE
\* cli.rs 39-41: auto_mime is on, as it is unless switched off.
AutoMime == config.auto_mime = TRUE

\* cli.rs 93-104, 46: the configuration when no flag is given, without
\* credentials.
Defaults ==
  /\ AutoMime
  /\ config.mode = "auto"
  /\ config.gateway = DwebLink
  /\ config.private_cidrs = <<>>
  /\ config.auth = NoAuth

\* main.rs 153: the index pool after close() was called on it; every
\* acquire from then on returns PoolClosed.
PoolClosed == "pool" \in DOMAIN resp /\ resp.pool = "closed"

\* A call of the index or of the IPFS node may fail (transport or remote
\* error, or a pool that is closed); the handler then takes its Err branch.
MayFail == faults < MaxFaults \/ PoolClosed

Call(r, name) == [r EXCEPT !.calls = Append(@, name)]
\* A variant in which the handler goes on after the error.
RespondAndGoOn(r, status, etag) ==
  [r EXCEPT !.status = status, !.etag = etag]
\* return Err(status), or the return of the response: the handler ends.
Respond(r, status, etag) ==
  [r EXCEPT !.status = status, !.etag = etag, !.pc = "done"]

\* ------------------------------------------------------------------ PutObject
\* A variant that guesses whatever the switch says.
content_type_guessed(header, key, auto_mime) ==
  IF header # NoHeader THEN header ELSE mime_guess(key)

\* put_object.rs 60-70: the content type of the row.
content_type_of(header, key, auto_mime) ==
  IF header # NoHeader THEN header
  ELSE IF auto_mime THEN mime_guess(key)
  ELSE OctetStream

\* A variant without the comparison of the CIDs.
orphan_check_any_old(old, cid) == old # NoRow

\* put_object.rs 114-115: the spawned task checks the previous CID only if
\* a previous row existed and its CID differs from the new one.
orphan_check_due(old, cid) == old # NoRow /\ old.cid # cid

\* put_object.rs 54-78: read the previous row, resolve the content type,
\* normalize the path. r0 holds the inputs of the call.
PutBegin(id, r0) ==
  LET r1 == Call(r0, "get_object_metadata")
      path == normalized_path(folder_prefix, r0.bucket, r0.key)
  IN \/ /\ path # PathError
        /\ req' = [req EXCEPT ![id] =
              [r1 EXCEPT !.old = get_object_metadata(index, r0.bucket, r0.key),
                         !.content_type =
                            content_type_of(r0.header, r0.key, config.auto_mime),
                         !.path = path, !.pc = "add"]]
        /\ UNCHANGED faults
     \/ /\ path = PathError
        /\ req' = [req EXCEPT ![id] = Respond(r1, 400, <<>>)]
        /\ UNCHANGED faults
     \/ /\ MayFail
        /\ faults' = faults + 1
        /\ req' = [req EXCEPT ![id] = Respond(r1, 500, <<>>)]

\* A PUT /{bucket}/{key} without uploadId and partNumber arrives.
PutReceive(id, bucket, key, body, header) ==
  /\ nreq < MaxRequests /\ id = nreq + 1
  /\ nreq' = nreq + 1
  /\ PutBegin(id, [IdleReq EXCEPT !.op = "put", !.bucket = bucket, !.key = key,
                                  !.body = body, !.header = header,
                                  !.open = OpenAt(req), !.busy = BusyAt(req)])
  /\ UNCHANGED <<config, resp, index, now, mfs, pinned, everLive>>
  /\ UNCHANGED mpvars

\* ipfs.rs 66-71: add (the node pins what it adds).
PutAdd(id) ==
  /\ req[id].op = "put" /\ req[id].pc = "add"
  /\ \/ /\ pinned' = pinned \cup {CidOf(req[id].body)}
        /\ req' = [req EXCEPT ![id] =
              [Call(@, "add") EXCEPT !.cid = CidOf(req[id].body), !.pc = "cp"]]
        /\ UNCHANGED faults
     \/ /\ MayFail
        /\ faults' = faults + 1
        /\ req' = [req EXCEPT ![id] = Respond(Call(@, "add"), 500, <<>>)]
        /\ UNCHANGED pinned
  /\ UNCHANGED <<config, resp, index, now, mfs, nreq, everLive>>
  /\ UNCHANGED mpvars

\* ipfs.rs 73-83: files cp of the new CID to the object's path.
PutCp(id) ==
  /\ req[id].op = "put" /\ req[id].pc = "cp"
  /\ \/ /\ mfs' = files_cp(mfs, req[id].path, req[id].cid)
        /\ req' = [req EXCEPT ![id] = [Call(@, "files_cp") EXCEPT !.pc = "upsert"]]
        /\ UNCHANGED faults
     \/ /\ MayFail
        /\ faults' = faults + 1
        /\ req' = [req EXCEPT ![id] = Respond(Call(@, "files_cp"), 500, <<>>)]
        /\ UNCHANGED mfs
  /\ UNCHANGED <<config, resp, index, now, pinned, nreq, everLive>>
  /\ UNCHANGED mpvars

\* put_object.rs 91-136: upsert the row, spawn the task, respond 200.
PutUpsert(id) ==
  /\ req[id].op = "put" /\ req[id].pc = "upsert"
  /\ \/ /\ index' = store_object_metadata(index, req[id].bucket, req[id].key,
                       req[id].cid, Len(req[id].body), req[id].content_type, now)
        /\ everLive' = everLive \cup {req[id].cid}
        /\ req' = [req EXCEPT ![id] =
              [Call(@, "store_object_metadata") EXCEPT
                 !.status = 200, !.etag = etag_value(req[id].cid),
                 !.roots = req[id].cid, !.stored_at = now,
                 !.stored = get_object_metadata(index', req[id].bucket, req[id].key),
                 !.pc = IF orphan_check_due(req[id].old, req[id].cid)
                        THEN "count" ELSE "done"]]
        /\ UNCHANGED faults
     \/ /\ MayFail
        /\ faults' = faults + 1
        /\ req' = [req EXCEPT ![id] = Respond(Call(@, "store_object_metadata"), 500, <<>>)]
        /\ UNCHANGED <<index, everLive>>
  /\ UNCHANGED <<config, resp, now, mfs, pinned, nreq>>
  /\ UNCHANGED mpvars

\* ------------------------------------------------------------------ unpin_if_orphan
\* delete_object.rs 78: the value of x-ipfs-path.
ipfs_path(cid) == <<"/ipfs/", cid>>

\* A variant that takes the row being replaced for still counted.
unpin_due_off_by_one(remaining) == remaining = 1

\* s3/mod.rs 57: pin_remove only when no row references the CID.
unpin_due(remaining) == remaining = 0

\* The result of unpin_if_orphan (history), "none" until it has returned.
\* How unpin_if_orphan returns to its caller: delete_object awaits it and
\* maps Err to 500 (delete_object.rs 76), otherwise responds 204 with the
\* deleted CID (delete_object.rs 78-117); the task spawned by put_object
\* drops the result (put_object.rs 117-120).
UnpinResult(r, ok) == [r EXCEPT !.unpin = IF ok THEN "ok" ELSE "failed"]

\* A variant that does not look at the flag.
trim_always == TRUE

\* delete_object.rs 81-86: the flag, off when the option is unset.
trim_enabled == config.trim_empty_folders

\* delete_object.rs 87-93: the task delete_object spawns, about to walk the
\* ancestors of the key of the deleted row, the deepest first (database.rs
\* 179-187). depth is the number of segments of the ancestor to query next,
\* shallow the local of that name; views (history) are the contents of the
\* index its queries have read, result the answer of the walk, path the
\* argument of its files rm.
spawn_trim(metadata) ==
  [bucket |-> metadata.bucket, key |-> metadata.key,
   depth |-> Len(metadata.key), shallow |-> NoPath, views |-> {},
   result |-> "pending", path |-> NoPath, removed |-> FALSE]

\* A variant in which delete_object drops the result as the task does.
UnpinReturnDropped(r, ok) ==
  IF r.op = "put" THEN [UnpinResult(r, ok) EXCEPT !.pc = "done"]
  ELSE [UnpinResult(r, ok) EXCEPT !.status = 204, !.roots = r.old.cid,
                                  !.ipfs_path = ipfs_path(r.old.cid), !.pc = "done"]

UnpinReturn(r, ok) ==
  IF r.op = "put" THEN [UnpinResult(r, ok) EXCEPT !.pc = "done"]
  ELSE IF ok THEN [UnpinResult(r, ok) EXCEPT
                     !.status = 204, !.roots = r.old.cid,
                     !.ipfs_path = ipfs_path(r.old.cid),
                     !.task = IF trim_enabled THEN spawn_trim(r.old) ELSE NoTask,
                     !.pc = IF trim_enabled THEN "find" ELSE "done"]
  ELSE Respond(UnpinResult(r, ok), 500, <<>>)

\* s3/mod.rs 43-49: the reference count of the CID.
UnpinCount(id) ==
  /\ req[id].pc = "count"
  /\ \/ /\ LET n == cid_count(index, req[id].old.cid)
               r == [Call(req[id], "cid_count") EXCEPT !.remaining = n]
           IN req' = [req EXCEPT ![id] =
                        IF unpin_due(n) THEN [r EXCEPT !.pc = "unpin"]
                        ELSE UnpinReturn(r, TRUE)]
        /\ UNCHANGED faults
     \/ /\ MayFail
        /\ faults' = faults + 1
        /\ req' = [req EXCEPT ![id] = UnpinReturn(Call(@, "cid_count"), FALSE)]
  /\ UNCHANGED <<config, resp, index, now, mfs, pinned, nreq, everLive>>
  /\ UNCHANGED mpvars

\* s3/mod.rs 57-62: pin rm of the CID.
UnpinRemove(id) ==
  /\ req[id].pc = "unpin"
  /\ \/ /\ pin_rm_ok(pinned, req[id].old.cid)
        /\ pinned' = pin_rm(pinned, req[id].old.cid)
        /\ req' = [req EXCEPT ![id] = UnpinReturn(Call(@, "pin_rm"), TRUE)]
        /\ UNCHANGED faults
     \/ /\ ~pin_rm_ok(pinned, req[id].old.cid)
        /\ req' = [req EXCEPT ![id] = UnpinReturn(Call(@, "pin_rm"), FALSE)]
        /\ UNCHANGED <<pinned, faults>>
     \/ /\ MayFail
        /\ faults' = faults + 1
        /\ req' = [req EXCEPT ![id] = UnpinReturn(Call(@, "pin_rm"), FALSE)]
        /\ UNCHANGED pinned
  /\ UNCHANGED <<config, resp, index, now, mfs, nreq, everLive>>
  /\ UNCHANGED mpvars

\* ------------------------------------------------------------------ DeleteObject
\* delete_object.rs 41-64: read the row (404 if absent), normalize the path.
DeleteReceive(id, bucket, key) ==
  /\ nreq < MaxRequests /\ id = nreq + 1
  /\ nreq' = nreq + 1
  /\ LET r0 == [IdleReq EXCEPT !.op = "delete", !.bucket = bucket, !.key = key,
                               !.calls = <<"get_object_metadata">>,
                               !.open = OpenAt(req), !.busy = BusyAt(req)]
         metadata == get_object_metadata(index, bucket, key)
     IN \/ /\ metadata # NoRow
           /\ req' = [req EXCEPT ![id] =
                 [r0 EXCEPT !.old = metadata,
                            !.path = normalized_path(folder_prefix, metadata.bucket, metadata.key),
                            !.pc = "unlink"]]
           /\ UNCHANGED faults
        \/ /\ metadata = NoRow
           /\ req' = [req EXCEPT ![id] = Respond(r0, 404, <<>>)]
           /\ UNCHANGED faults
        \/ /\ MayFail
           /\ faults' = faults + 1
           /\ req' = [req EXCEPT ![id] = Respond(r0, 500, <<>>)]
  /\ UNCHANGED <<config, resp, index, now, mfs, pinned, everLive>>
  /\ UNCHANGED mpvars

\* delete_object.rs 66-69: files rm of the object's path.
DeleteUnlink(id) ==
  /\ req[id].op = "delete" /\ req[id].pc = "unlink"
  /\ \/ /\ files_rm_ok(mfs, req[id].path)
        /\ mfs' = files_rm(mfs, req[id].path)
        /\ req' = [req EXCEPT ![id] = [Call(@, "files_rm") EXCEPT !.pc = "delrow"]]
        /\ UNCHANGED faults
     \/ /\ ~files_rm_ok(mfs, req[id].path)
        /\ req' = [req EXCEPT ![id] = Respond(Call(@, "files_rm"), 500, <<>>)]
        /\ UNCHANGED <<mfs, faults>>
     \/ /\ MayFail
        /\ faults' = faults + 1
        /\ req' = [req EXCEPT ![id] = Respond(Call(@, "files_rm"), 500, <<>>)]
        /\ UNCHANGED mfs
  /\ UNCHANGED <<config, resp, index, now, pinned, nreq, everLive>>
  /\ UNCHANGED mpvars

\* delete_object.rs 71-74: delete the row.
DeleteRow(id) ==
  /\ req[id].op = "delete" /\ req[id].pc = "delrow"
  /\ \/ /\ index' = delete_object_row(index, req[id].old)
        /\ req' = [req EXCEPT ![id] = [Call(@, "delete_object") EXCEPT !.pc = "count"]]
        /\ UNCHANGED faults
     \/ /\ MayFail
        /\ faults' = faults + 1
        /\ req' = [req EXCEPT ![id] = Respond(Call(@, "delete_object"), 500, <<>>)]
        /\ UNCHANGED index
  /\ UNCHANGED <<config, resp, now, mfs, pinned, nreq, everLive>>
  /\ UNCHANGED mpvars

\* ------------------------------------------------------------------ multipart
PartNumbers == {-1, 2}
PartBytes == {<<1>>, <<2>>}
MpBuckets == {"b1"}
MpKeys == {<<"a", "x">>}

Len_(m) == Cardinality(DOMAIN m)
\* A variant of remove that hands out the entry and leaves it in the map.
remove_keeps(m, k) == m
\* limited_slots.rs 41-43: remove.
Without(m, k) == [x \in DOMAIN m \ {k} |-> m[x]]
\* A variant of insert that keeps the value a key already has.
insert_if_absent(m, k, v) ==
  [x \in DOMAIN m \cup {k} |-> IF x \in DOMAIN m THEN m[x] ELSE v]
\* DashMap::insert (limited_slots.rs 34, put_object.rs 43): the value replaces
\* the one the key had.
With(m, k, v) == [x \in DOMAIN m \cup {k} |-> IF x = k THEN v ELSE m[x]]

\* The two latest responses.
Logged(entry) ==
  IF mlog = <<>> THEN <<entry>> ELSE <<mlog[Len(mlog)], entry>>
Entry(op, upload, status, found, before, after) ==
  [op |-> op, upload |-> upload, status |-> status, found |-> found,
   before |-> before, after |-> after]

RECURSIVE sorted_descending(_)
\* A variant that sorts the part numbers the other way round.
sorted_descending(keys) ==
  IF keys = {} THEN <<>>
  ELSE LET k == CHOOSE x \in keys : \A y \in keys : x >= y
       IN <<k>> \o sorted_descending(keys \ {k})

RECURSIVE sorted_by_key(_)
\* post_object.rs 62: the part numbers in ascending order.
sorted_by_key(keys) ==
  IF keys = {} THEN <<>>
  ELSE LET k == CHOOSE x \in keys : \A y \in keys : x <= y
       IN <<k>> \o sorted_by_key(keys \ {k})

RECURSIVE concat(_, _)
concat(parts, order) ==
  IF order = <<>> THEN <<>>
  ELSE parts[Head(order)] \o concat(parts, Tail(order))

\* post_object.rs 60-65: the body of the object.
assemble(parts) == concat(parts, sorted_by_key(DOMAIN parts))

\* post_object.rs 30-36, limited_slots.rs 32-33: POST ?uploads, up to the
\* capacity check; 503 when it fails (post_object.rs 52).
CreateCheck ==
  /\ nmp < MaxMultipartOps
  /\ nmp' = nmp + 1
  /\ \/ /\ check_capacity(Len_(slots), capacity)
        /\ creating' = Append(creating, Len_(slots))
        /\ UNCHANGED mlog
     \/ /\ ~check_capacity(Len_(slots), capacity)
        /\ mlog' = Logged(Entry("create", NoUpload, 503, FALSE, Len_(slots), Len_(slots)))
        /\ UNCHANGED creating
  /\ UNCHANGED <<slots, capacity, nupload, uploaded>>
  /\ UNCHANGED <<config, resp, index, now, mfs, pinned, req, nreq, faults, everLive>>

\* limited_slots.rs 34, post_object.rs 37-51: the insert under a new upload
\* id, and the 200 response.
CreateInsert(i) ==
  /\ i \in 1..Len(creating)
  /\ nupload' = nupload + 1
  /\ slots' = With(slots, nupload', <<>>)
  /\ uploaded' = With(uploaded, nupload', <<>>)
  /\ creating' = SubSeq(creating, 1, i - 1) \o SubSeq(creating, i + 1, Len(creating))
  /\ mlog' = Logged(Entry("create", nupload', 200, FALSE, creating[i], Len_(slots')))
  /\ UNCHANGED <<capacity, nmp>>
  /\ UNCHANGED <<config, resp, index, now, mfs, pinned, req, nreq, faults, everLive>>

\* put_object.rs 41-50: PUT with uploadId and partNumber.
UploadPart(u, part_number, body) ==
  /\ nmp < MaxMultipartOps
  /\ nmp' = nmp + 1
  /\ \/ /\ u \in DOMAIN slots
        /\ slots' = [slots EXCEPT ![u] = With(@, part_number, body)]
        /\ uploaded' = [uploaded EXCEPT ![u] = Append(@, <<part_number, body>>)]
        /\ mlog' = Logged(Entry("upload_part", u, 200, TRUE, Len_(slots), Len_(slots)))
     \/ /\ u \notin DOMAIN slots
        /\ mlog' = Logged(Entry("upload_part", u, 400, FALSE, Len_(slots), Len_(slots)))
        /\ UNCHANGED <<slots, uploaded>>
  /\ UNCHANGED <<capacity, creating, nupload>>
  /\ UNCHANGED <<config, resp, index, now, mfs, pinned, req, nreq, faults, everLive>>

\* A variant that answers 404 when the upload id is unknown.
abort_status_if_found(found) == IF found THEN 204 ELSE 404
\* delete_object.rs 35-38: the response does not depend on the removal.
abort_status(found) == 204

\* delete_object.rs 24-39: DELETE with uploadId.
AbortMultipartUpload(u) ==
  /\ nmp < MaxMultipartOps
  /\ nmp' = nmp + 1
  /\ slots' = Without(slots, u)
  /\ uploaded' = Without(uploaded, u)
  /\ mlog' = Logged(Entry("abort", u, abort_status(u \in DOMAIN slots),
                          u \in DOMAIN slots, Len_(slots), Len_(slots')))
  /\ UNCHANGED <<capacity, creating, nupload>>
  /\ UNCHANGED <<config, resp, index, now, mfs, pinned, req, nreq, faults, everLive>>

\* post_object.rs 56-74, 94-96: POST ?uploadId: take the upload out of the
\* registry and call put_object with the assembled body and no content
\* type; 400 when the id is unknown.
CompleteMultipartUpload(id, u, bucket, key) ==
  /\ nmp < MaxMultipartOps
  /\ nmp' = nmp + 1
  /\ \/ /\ u \in DOMAIN slots
        /\ nreq < MaxRequests /\ id = nreq + 1
        /\ nreq' = nreq + 1
        /\ slots' = Without(slots, u)
        /\ uploaded' = Without(uploaded, u)
        /\ req' = [req EXCEPT ![id] =
              [IdleReq EXCEPT !.op = "put", !.bucket = bucket, !.key = key,
                              !.body = assemble(slots[u]), !.header = NoHeader,
                              !.via = u, !.parts_log = uploaded[u], !.pc = "get",
                              !.open = OpenAt(req), !.busy = BusyAt(req)]]
        /\ mlog' = Logged(Entry("complete", u, 0, TRUE, Len_(slots), Len_(slots')))
     \/ /\ u \notin DOMAIN slots
        /\ mlog' = Logged(Entry("complete", u, 400, FALSE, Len_(slots), Len_(slots)))
        /\ UNCHANGED <<slots, uploaded, req, nreq>>
  /\ UNCHANGED <<capacity, creating, nupload>>
  /\ UNCHANGED <<config, resp, index, now, mfs, pinned, faults, everLive>>

\* post_object.rs 67-74: the put_object called by CompleteMultipartUpload
\* starts; its response becomes the response of the Complete.
CompletePut(id) ==
  /\ req[id].op = "put" /\ req[id].pc = "get"
  /\ PutBegin(id, req[id])
  /\ UNCHANGED <<config, resp, index, now, mfs, pinned, nreq, everLive>>
  /\ UNCHANGED mpvars

\* post_object.rs 100: POST with neither uploads nor uploadId.
PostWithoutParams ==
  /\ nmp < MaxMultipartOps
  /\ nmp' = nmp + 1
  /\ mlog' = Logged(Entry("post", NoUpload, 400, FALSE, Len_(slots), Len_(slots)))
  /\ UNCHANGED <<slots, capacity, creating, nupload, uploaded>>
  /\ UNCHANGED <<config, resp, index, now, mfs, pinned, req, nreq, faults, everLive>>

\* ------------------------------------------------------------------ clock
\* The clock of the index moves on; statements between two moves get the
\* same timestamp.
Tick ==
  /\ now < MaxClock
  /\ now' = now + 1
  /\ UNCHANGED <<config, resp, index, mfs, pinned, req, nreq, faults, everLive>>
  /\ UNCHANGED mpvars

\* ------------------------------------------------------------------ Next
\* The steps of put_object and unpin_if_orphan, shared by PutObject and
\* CompleteMultipartUpload.
PutSteps ==
  \/ \E id \in Ids : PutAdd(id)
  \/ \E id \in Ids : PutCp(id)
  \/ \E id \in Ids : PutUpsert(id)
  \/ \E id \in Ids : UnpinCount(id)
  \/ \E id \in Ids : UnpinRemove(id)

NextObjects ==
  \/ \E id \in Ids, b \in Buckets, k \in Keys, body \in Bodies, h \in ContentTypes :
       PutReceive(id, b, k, body, h)
  \/ \E id \in Ids, b \in Buckets, k \in Keys : DeleteReceive(id, b, k)
  \/ \E id \in Ids : DeleteUnlink(id)
  \/ \E id \in Ids : DeleteRow(id)
  \/ PutSteps
  \/ Tick

NextMultipart ==
  \/ CreateCheck
  \/ \E i \in 1..MaxMultipartOps : CreateInsert(i)
  \/ \E u \in 0..nupload, n \in PartNumbers, body \in PartBytes : UploadPart(u, n, body)
  \/ \E u \in 0..nupload : AbortMultipartUpload(u)
  \/ \E id \in Ids, u \in 0..nupload, b \in MpBuckets, k \in MpKeys :
       CompleteMultipartUpload(id, u, b, k)
  \/ \E id \in Ids : CompletePut(id)
  \/ PostWithoutParams
  \/ PutSteps
  \/ Tick

Next == NextObjects \/ NextMultipart

\* The whole service.
Spec == Init /\ [][Next]_vars
\* PutObject and DeleteObject requests only, without the directory
\* trimmer; the registry is never used and its capacity is left at the
\* configured size.
InitObjects ==
  Init /\ Defaults /\ NoTrim /\ capacity = config.concurrent_multipart_upload
SpecObjects == InitObjects /\ [][NextObjects]_vars
\* Multipart requests only.
InitDefaults == Init /\ Defaults /\ NoTrim
SpecMultipart == InitDefaults /\ [][NextMultipart]_vars

\* ------------------------------------------------------------------ scenario E2
\* A step in which no call fails.
Reliable(A) == A /\ UNCHANGED faults

\* PUT of a key, then, once it is answered, PUT of the same key with other
\* bytes; no call of the index or of the node fails.
OverwriteReceive(id, bucket, key, body, header) ==
  /\ key \in GoodKeys
  /\ \/ nreq = 0
     \/ /\ nreq = 1 /\ req[1].status = 200
        /\ bucket = req[1].bucket /\ key = req[1].key /\ body # req[1].body
  /\ PutReceive(id, bucket, key, body, header)

NextOverwrite ==
  \/ \E id \in Ids, b \in Buckets, k \in Keys, body \in Bodies, h \in ContentTypes :
       Reliable(OverwriteReceive(id, b, k, body, h))
  \/ \E id \in Ids : Reliable(PutAdd(id))
  \/ \E id \in Ids : Reliable(PutCp(id))
  \/ \E id \in Ids : Reliable(PutUpsert(id))
  \/ \E id \in Ids : Reliable(UnpinCount(id))
  \/ \E id \in Ids : Reliable(UnpinRemove(id))
  \/ Tick

\* The runtime keeps polling a handler and a spawned task until they end.
SpecOverwrite ==
  /\ InitObjects /\ [][NextOverwrite]_vars
  /\ \A id \in Ids :
       /\ WF_vars(Reliable(PutAdd(id)))
       /\ WF_vars(Reliable(PutCp(id)))
       /\ WF_vars(Reliable(PutUpsert(id)))
       /\ WF_vars(Reliable(UnpinCount(id)))
       /\ WF_vars(Reliable(UnpinRemove(id)))

\* ------------------------------------------------------------------ observations
Called(r, name) == \E i \in 1..Len(r.calls) : r.calls[i] = name

\* No handler and no spawned task is running.
Quiescent == \A id \in Ids : req[id].pc \in {"idle", "done"}

\* Every request received so far was answered with success.
AllSucceeded == \A id \in Ids : req[id].op # "idle" => req[id].status \in {200, 204}

\* The CIDs the requests of the behaviour can produce.
Cids == {CidOf(req[id].body) : id \in {i \in Ids : req[i].op = "put"}}

\* The requests that invoked pin_remove on cid, and their number.
Unpinners(cid) ==
  {id \in Ids : Called(req[id], "pin_rm") /\ req[id].old.cid = cid}
PinRemoveCalls(cid) == Cardinality(Unpinners(cid))

Referenced(cid) == cid_count(index, cid) > 0

RowsOf(bucket, key) == {r \in index : r.bucket = bucket /\ r.key = key}

\* ------------------------------------------------------------------ claims

\* C1: once every request and every orphan-check task has finished (and no
\* call of the index or of the node failed), pin_remove has been invoked on
\* a CID exactly when the CID was referenced by a row at some point and is
\* referenced by no row now.
C1_PinAccounting ==
  (Quiescent /\ faults = 0) =>
    \A c \in Cids :
      (PinRemoveCalls(c) > 0) <=> (c \in everLive /\ ~Referenced(c))

\* C2: pin_remove is invoked on any given CID at most once in total.
C2_UnpinnedAtMostOnce == \A c \in Cids : PinRemoveCalls(c) <= 1

\* C3: a CID that is referenced by at least one committed index row is
\* pinned, in every state of every interleaving.
C3_LiveCidPinned == \A r \in index : r.cid \in pinned

\* The order of the calls of one PutObject (handler, then spawned task).
PutCallOrder ==
  <<"get_object_metadata", "add", "files_cp", "store_object_metadata",
    "cid_count", "pin_rm">>

\* C5: the calls of a PutObject are made in the order read previous row,
\* add, files cp, upsert, ref-count, pin_remove; the ref-count query is made
\* only after the upsert was answered with 200 and only if a previous row
\* existed with another CID; a PUT of the bytes the row already holds
\* never reaches pin_remove.
C5_PutOrder ==
  \A id \in Ids :
    req[id].op = "put" =>
      /\ IsPrefix(req[id].calls, PutCallOrder)
      /\ Called(req[id], "cid_count") =>
           /\ req[id].status = 200
           /\ req[id].old # NoRow
           /\ req[id].old.cid # req[id].cid
      /\ (req[id].old # NoRow /\ req[id].old.cid = CidOf(req[id].body)) =>
           ~Called(req[id], "pin_rm")

\* C5 witness: a PutObject that overwrote a row of another CID and whose
\* task went as far as pin_remove, and a PutObject that overwrote a row
\* with the bytes it already held.
C5_Witness ==
  /\ \E id \in Ids :
       /\ req[id].op = "put" /\ req[id].pc = "done"
       /\ req[id].calls = PutCallOrder
  /\ \E id \in Ids :
       /\ req[id].op = "put" /\ req[id].pc = "done" /\ req[id].status = 200
       /\ req[id].old # NoRow /\ req[id].old.cid = req[id].cid

\* The two latest requests are PutObjects of the same (bucket, key) whose
\* handlers overlapped, and whatever came before them had finished.
TwoConcurrentPuts(i, j) ==
  /\ j = nreq /\ i = j - 1 /\ i >= 1
  /\ req[i].op = "put" /\ req[j].op = "put"
  /\ req[i].bucket = req[j].bucket /\ req[i].key = req[j].key
  /\ req[i].key \in GoodKeys
  /\ req[i].busy = {} /\ req[j].open = {i}

\* C6: two concurrent PutObjects of one key both return 200 and leave one
\* row holding the CID of one of them; once their tasks have finished every
\* CID that was referenced and is referenced no more has been unpinned, and
\* the CID of the row is pinned.
C6_ConcurrentPuts ==
  \A i, j \in Ids :
    (TwoConcurrentPuts(i, j) /\ Quiescent /\ faults = 0) =>
      /\ req[i].status = 200 /\ req[j].status = 200
      /\ Cardinality(RowsOf(req[i].bucket, req[i].key)) = 1
      /\ \A r \in RowsOf(req[i].bucket, req[i].key) :
           r.cid \in {req[i].cid, req[j].cid} /\ r.cid \in pinned
      /\ \A c \in everLive : ~Referenced(c) => c \notin pinned

\* The MFS entry of a row.
MfsEntryOf(r) ==
  [path |-> normalized_path(folder_prefix, r.bucket, r.key), cid |-> r.cid]

\* C7: when nothing is in flight and every request returned success, each
\* index row has an MFS entry at its path that points to the row's CID.
C7_RowHasMfsEntry ==
  (Quiescent /\ AllSucceeded) => \A r \in index : MfsEntryOf(r) \in mfs

\* The latest two requests are the same PutObject (same bytes, same
\* Content-Type header), the second received after the first was answered,
\* the first with nothing else in flight; both were answered 200.
SamePutTwice(i, j) ==
  /\ j = nreq /\ i = j - 1 /\ i >= 1
  /\ req[i].op = "put" /\ req[j].op = "put"
  /\ req[i].bucket = req[j].bucket /\ req[i].key = req[j].key
  /\ req[i].body = req[j].body /\ req[i].header = req[j].header
  /\ req[i].busy = {} /\ req[j].open = {}
  /\ req[i].status = 200 /\ req[j].status = 200

\* C8: after two successive PUTs of the same bytes to the same key the index
\* holds one row for the key, with the cid, size and content type the first
\* PUT left (the row the second PUT read) and the timestamp of the second
\* upsert as updated_at; both responses carry the same ETag and the second
\* PUT issues no pin_remove.
C8_UpsertIdempotent ==
  \A i, j \in Ids :
    (SamePutTwice(i, j) /\ Quiescent) =>
      /\ Cardinality(RowsOf(req[j].bucket, req[j].key)) = 1
      /\ \A r \in RowsOf(req[j].bucket, req[j].key) :
           /\ r.cid = req[j].old.cid
           /\ r.size = req[j].old.size
           /\ r.content_type = req[j].old.content_type
           /\ r.size = Len(req[j].body)
           /\ r.updated_at = req[j].stored_at
           /\ r.updated_at >= req[j].old.updated_at
      /\ req[i].etag = req[j].etag
      /\ req[j].etag = etag_value(CidOf(req[j].body))
      /\ ~Called(req[j], "cid_count") /\ ~Called(req[j], "pin_rm")
      /\ CidOf(req[j].body) \in pinned

\* C8 witness: the second of two identical PUTs has been answered.
C8_Witness == \E i, j \in Ids : SamePutTwice(i, j) /\ Quiescent

\* The part uploads of a log that count: for each part number the latest.
PartNumbersOf(log) == {log[i][1] : i \in DOMAIN log}
LatestOf(log, n) ==
  LET i == CHOOSE x \in DOMAIN log :
             log[x][1] = n /\ \A y \in DOMAIN log : log[y][1] = n => y <= x
  IN log[i][2]
\* The part number with r - 1 smaller part numbers in the log.
Ranked(log, r) ==
  CHOOSE n \in PartNumbersOf(log) :
    Cardinality({m \in PartNumbersOf(log) : m < n}) = r - 1
RECURSIVE Flatten(_)
Flatten(chunks) ==
  IF chunks = <<>> THEN <<>> ELSE Head(chunks) \o Flatten(Tail(chunks))
ExpectedBody(log) ==
  Flatten([r \in 1..Cardinality(PartNumbersOf(log)) |-> LatestOf(log, Ranked(log, r))])

\* C9: the body a CompleteMultipartUpload hands to put_object is the
\* concatenation, in ascending part-number order, of the latest bytes
\* uploaded for each part number, whatever the arrival order; that body is
\* what the row the upsert stores and the response's ETag are made from.
C9_MultipartOrder ==
  \A id \in Ids :
    req[id].via # NoUpload =>
      /\ req[id].body = ExpectedBody(req[id].parts_log)
      /\ req[id].status = 200 =>
           /\ req[id].cid = CidOf(ExpectedBody(req[id].parts_log))
           /\ req[id].etag = etag_value(CidOf(ExpectedBody(req[id].parts_log)))
           /\ req[id].stored # NoRow
           /\ req[id].stored.cid = CidOf(ExpectedBody(req[id].parts_log))
           /\ req[id].stored.size = Len(ExpectedBody(req[id].parts_log))

\* C9 witness: a completed upload whose parts arrived in descending order
\* and one of which was uploaded twice with different bytes.
C9_Witness ==
  \E id \in Ids :
    /\ req[id].via # NoUpload /\ req[id].status = 200
    /\ Len(req[id].parts_log) = 3
    /\ req[id].parts_log[1][1] > req[id].parts_log[2][1]
    /\ req[id].parts_log[3][1] = req[id].parts_log[1][1]
    /\ req[id].parts_log[3][2] # req[id].parts_log[1][2]
    /\ req[id].stored \in index

\* C10: a CreateMultipartUpload that finds exactly N uploads open, N the
\* configured concurrent_multipart_upload, is answered 503 and adds nothing;
\* the CreateMultipartUpload that follows a Complete or Abort of an open
\* upload is answered 200.
C10_CapacityRefusal ==
  /\ \A n \in DOMAIN mlog :
       (mlog[n].op = "create" /\ mlog[n].before = config.concurrent_multipart_upload) =>
          (mlog[n].status = 503 /\ mlog[n].after = mlog[n].before)
  /\ (/\ Len(mlog) = 2
      /\ mlog[1].op \in {"complete", "abort"} /\ mlog[1].found
      /\ mlog[2].op = "create" /\ mlog[2].before = mlog[1].after) =>
        mlog[2].status = 200

\* The second of two PUTs of one key, with other bytes than the first, has
\* been answered; the first was answered before the second arrived.
OverwriteAnswered ==
  /\ nreq = 2
  /\ req[1].op = "put" /\ req[2].op = "put"
  /\ req[1].bucket = req[2].bucket /\ req[1].key = req[2].key
  /\ req[1].body # req[2].body
  /\ req[1].status = 200 /\ req[2].status = 200
  /\ req[2].open = {}

\* C4: after PUT (CID C1) then PUT of the same key with other bytes (CID C2)
\* the task of the second PUT eventually invokes pin_remove(C1), it is
\* invoked once, pin_remove(C2) is never invoked, and C2 stays pinned.
C4_OverwriteUnpinsOld ==
  /\ [](OverwriteAnswered =>
          /\ PinRemoveCalls(req[1].cid) <= 1
          /\ PinRemoveCalls(req[2].cid) = 0
          /\ req[2].cid \in pinned)
  /\ (OverwriteAnswered ~>
        (Quiescent /\ PinRemoveCalls(req[1].cid) = 1 /\ req[1].cid \notin pinned))

\* C4 witness: the overwrite is done and the old CID was unpinned.
C4_Witness ==
  OverwriteAnswered /\ Quiescent /\ PinRemoveCalls(req[1].cid) = 1

\* ------------------------------------------------------------------ claims C11..C20

\* The latest response of a multipart request.
LastEntry == mlog[Len(mlog)]
\* The upload ids issued so far that are no longer in the registry.
Consumed == {u \in 1..nupload : u \notin DOMAIN slots}
\* The PutObjects performed by CompleteMultipartUpload of upload u.
PutsVia(u) == {id \in Ids : req[id].via = u}

\* C11: an upload is consumed once. In every state at most one PutObject
\* was performed for an upload id, and an upload whose Complete performed
\* the PutObject is out of the registry whatever the PutObject answered; in
\* every step an upload that is out of the registry stays out, and an
\* UploadPart or CompleteMultipartUpload for it is answered 400 and
\* changes neither the recorded parts nor the requests.
C11_ConsumedOnce ==
  /\ [](\A u \in 1..nupload :
          /\ Cardinality(PutsVia(u)) <= 1
          /\ PutsVia(u) # {} => u \in Consumed)
  /\ [][\A u \in Consumed :
          /\ u \notin DOMAIN slots'
          /\ \A n \in PartNumbers, body \in PartBytes :
               UploadPart(u, n, body) =>
                 (LastEntry'.status = 400 /\ uploaded' = uploaded /\ req' = req)
          /\ \A id \in Ids, b \in MpBuckets, k \in MpKeys :
               CompleteMultipartUpload(id, u, b, k) =>
                 (LastEntry'.status = 400 /\ req' = req)]_vars

\* C11 witness: the PutObject of a Complete failed with 500, and a second
\* Complete of the same upload id was answered 400.
C11_Witness ==
  \E u \in 1..nupload :
    /\ \E id \in PutsVia(u) : req[id].status = 500
    /\ mlog # <<>> /\ LastEntry.op = "complete" /\ LastEntry.upload = u
    /\ LastEntry.status = 400

\* The state of the index and of the IPFS node.
stores == <<index, mfs, pinned>>

\* C12: an UploadPart for an upload id of the registry records the bytes
\* under the part number (replacing what the number held, leaving the
\* other parts and the other uploads alone) and answers 200; for an
\* unknown id it answers 400 and leaves the registry as it was; either way
\* it writes no row, makes no call to the node and starts no PutObject.
C12_UploadPart ==
  [][\A u \in 0..nupload, n \in PartNumbers, body \in PartBytes :
       UploadPart(u, n, body) =>
         /\ LastEntry'.op = "upload_part"
         /\ IF u \in DOMAIN slots
            THEN /\ LastEntry'.status = 200
                 /\ DOMAIN slots' = DOMAIN slots
                 /\ DOMAIN slots'[u] = DOMAIN slots[u] \cup {n}
                 /\ slots'[u][n] = body
                 /\ \A m \in DOMAIN slots[u] \ {n} : slots'[u][m] = slots[u][m]
                 /\ \A v \in DOMAIN slots \ {u} : slots'[v] = slots[v]
            ELSE LastEntry'.status = 400 /\ slots' = slots
         /\ UNCHANGED stores
         /\ req' = req]_vars

\* C12 witness: a part number uploaded a second time with other bytes, the
\* upload holding another part too, answered 200.
C12_Witness ==
  /\ mlog # <<>> /\ LastEntry.op = "upload_part" /\ LastEntry.status = 200
  /\ LET u == LastEntry.upload
     IN /\ u \in DOMAIN slots
        /\ Len(uploaded[u]) = 3
        /\ uploaded[u][3][1] = uploaded[u][1][1]
        /\ uploaded[u][3][2] # uploaded[u][1][2]
        /\ uploaded[u][2][1] # uploaded[u][1][1]
        /\ slots[u][uploaded[u][3][1]] = uploaded[u][3][2]

\* C13: a DELETE with uploadId answers 204 whether or not the id is in the
\* registry, takes that upload (and no other) out of the registry, and
\* leaves the index, the MFS and the pins as they were.
C13_AbortFrame ==
  [][\A u \in 0..nupload :
       AbortMultipartUpload(u) =>
         /\ LastEntry'.op = "abort" /\ LastEntry'.status = 204
         /\ DOMAIN slots' = DOMAIN slots \ {u}
         /\ \A v \in DOMAIN slots' : slots'[v] = slots[v]
         /\ UNCHANGED stores
         /\ req' = req]_vars

\* C13 witness: an object is stored, and an abort of an open upload was
\* followed by an abort of an id that is not in the registry.
C13_Witness ==
  /\ Len(mlog) = 2
  /\ mlog[1].op = "abort" /\ mlog[1].found /\ mlog[1].status = 204
  /\ mlog[2].op = "abort" /\ ~mlog[2].found /\ mlog[2].status = 204
  /\ index # {} /\ mfs # {} /\ pinned # {}

\* ------------------------------------------------------------------ keys with dots
\* Keys as the route hands them over: with ".." segments in several
\* positions, with a leading "/", with a NUL byte, and plain ones.
PathKeys ==
  {<<"x">>, <<"a", "x">>, <<"..", "x">>, <<"a", "..", "x">>,
   <<"a", "..", "..", "x">>, <<"", "x">>, <<"a<NUL>">>}

\* PutObject and CompleteMultipartUpload requests for such keys, each
\* received when the requests before it and their tasks have finished;
\* one upload is open at a time and it is completed without parts.
NextPaths ==
  \/ \E id \in Ids, k \in PathKeys :
       Quiescent /\ PutReceive(id, "b1", k, <<1>>, NoHeader)
  \/ Quiescent /\ slots = <<>> /\ creating = <<>> /\ CreateCheck
  \/ \E i \in 1..MaxMultipartOps : CreateInsert(i)
  \/ \E id \in Ids, u \in DOMAIN slots, k \in PathKeys :
       Quiescent /\ CompleteMultipartUpload(id, u, "b1", k)
  \/ \E id \in Ids : CompletePut(id)
  \/ PutSteps

SpecPaths == InitDefaults /\ [][NextPaths]_vars

\* The keys the claim is about.
HasDotDot(key) == \E i \in 1..Len(key) : key[i] = ".."
LeadingSlash(key) == key # <<>> /\ key[1] = ""
HasNulByte(key) == \E i \in 1..Len(key) : HasNul(key[i])
UnsafeKey(key) == HasDotDot(key) \/ LeadingSlash(key) \/ HasNulByte(key)

\* C18: a PutObject (direct or made by CompleteMultipartUpload) whose key
\* has a ".." segment, a leading "/" or a NUL byte makes no call but the
\* read of the previous row, is answered, if at all, 400 (500 if that read
\* failed) and writes no row; every key of the index normalizes.
C18_PathSafety ==
  /\ \A id \in Ids :
       (req[id].op = "put" /\ UnsafeKey(req[id].key)) =>
          /\ IsPrefix(req[id].calls, <<"get_object_metadata">>)
          /\ req[id].status \in {0, 400} \/ (req[id].status = 500 /\ faults > 0)
          /\ \A r \in index : ~(r.bucket = req[id].bucket /\ r.key = req[id].key)
  /\ \A r \in index : normalized_path(folder_prefix, r.bucket, r.key) # PathError

\* ------------------------------------------------------------------ GetObject
\* The text of a Uri (Display): scheme, authority and path segments, in
\* this order, as far as they are present.
to_string(uri) ==
  (IF uri.scheme = "" THEN <<>> ELSE <<uri.scheme>>)
    \o (IF uri.authority = "" THEN <<>> ELSE <<uri.authority>>)
    \o (IF uri.path = NoPath THEN <<>> ELSE uri.path)

\* http Uri::from_parts: a scheme needs an authority and a path, and an
\* authority with a path needs a scheme.
from_parts_ok(parts) ==
  IF parts.scheme # "" THEN parts.authority # "" /\ parts.path # NoPath
  ELSE ~(parts.authority # "" /\ parts.path # NoPath)

\* Uri::default(): "/".
DefaultUri == Uri("", "", <<>>)

\* get_object.rs 22-30: the gateway with its path and query replaced by
\* /ipfs/{cid}, or the default Uri when these parts make no Uri.
redirect_location(gateway, cid) ==
  LET parts == [gateway EXCEPT !.path = <<"ipfs", cid>>]
  IN to_string(IF from_parts_ok(parts) THEN parts ELSE DefaultUri)

\* get_object.rs 58-62: updated_at as an HTTP date.
http_date(updated_at) == <<"http-date", updated_at>>

\* ipfs.rs get_content: cat of the CID, the bytes that were added under it.
get_content(cid) == cid[2]

\* get_object.rs 18-46.
redirect(cfg, metadata) ==
  [status |-> 307,
   headers |-> [h \in {"location", "x-ipfs-path", "x-ipfs-roots", "content-type"} |->
                  CASE h = "location" -> redirect_location(cfg.gateway, metadata.cid)
                    [] h = "x-ipfs-path" -> <<"ipfs", metadata.cid>>
                    [] h = "x-ipfs-roots" -> metadata.cid
                    [] h = "content-type" -> metadata.content_type],
   body |-> <<>>]

\* get_object.rs 48-69.
proxy(cfg, metadata) ==
  [status |-> 200,
   headers |-> [h \in {"x-ipfs-path", "x-ipfs-roots", "cache-control", "last-modified",
                       "priority", "x-robots-tag", "etag", "content-type"} |->
                  CASE h = "x-ipfs-path" -> <<"ipfs", metadata.cid>>
                    [] h = "x-ipfs-roots" -> metadata.cid
                    [] h = "cache-control" -> "public, max-age=29030400, immutable"
                    [] h = "last-modified" -> http_date(metadata.updated_at)
                    [] h = "priority" -> "i"
                    [] h = "x-robots-tag" -> "noindex, nofollow"
                    [] h = "etag" -> etag_value(metadata.cid)
                    [] h = "content-type" -> metadata.content_type],
   body |-> get_content(metadata.cid)]

\* iprfc::RFC6890, the IPv4 entries of the special-purpose registry.
RFC6890 ==
  {Net(0, 0, 0, 0, 8), Net(10, 0, 0, 0, 8), Net(100, 64, 0, 0, 10),
   Net(127, 0, 0, 0, 8), Net(169, 254, 0, 0, 16), Net(172, 16, 0, 0, 12),
   Net(192, 0, 0, 0, 24), Net(192, 0, 2, 0, 24), Net(192, 88, 99, 0, 24),
   Net(192, 168, 0, 0, 16), Net(198, 18, 0, 0, 15), Net(198, 51, 100, 0, 24),
   Net(203, 0, 113, 0, 24), Net(240, 0, 0, 0, 4)}

\* get_object.rs 97-103.
is_private(cfg, client_ip) ==
  \/ \E net \in RFC6890 : contains(net, client_ip)
  \/ \E i \in 1..Len(cfg.private_cidrs) : contains(cfg.private_cidrs[i], client_ip)

\* get_object.rs 93-110.
get_object_response(cfg, metadata, client_ip) ==
  CASE cfg.mode = "redirect" -> redirect(cfg, metadata)
    [] cfg.mode = "proxy" -> proxy(cfg, metadata)
    [] cfg.mode = "auto" ->
         IF is_private(cfg, client_ip) THEN proxy(cfg, metadata)
         ELSE redirect(cfg, metadata)

\* A response that is a status only.
StatusOnly(status) == [status |-> status, headers |-> <<>>, body |-> <<>>]

\* get_object.rs 75-113: the row is read, then the response is built; what
\* the handler was given and what it read are kept with the response
\* (history).
get_object(bucket, key, client_ip) ==
  /\ \/ /\ faults < MaxFaults
        /\ faults' = faults + 1
        /\ resp' = [by |-> "get_object", bucket |-> bucket, key |-> key,
                    client_ip |-> client_ip, metadata |-> NoRow,
                    response |-> StatusOnly(500)]
     \/ /\ UNCHANGED faults
        /\ LET metadata == get_object_metadata(index, bucket, key)
           IN resp' = [by |-> "get_object", bucket |-> bucket, key |-> key,
                       client_ip |-> client_ip, metadata |-> metadata,
                       response |-> IF metadata = NoRow THEN StatusOnly(404)
                                    ELSE get_object_response(config, metadata, client_ip)]
  /\ UNCHANGED <<config, index, now, mfs, pinned, req, nreq, everLive>>
  /\ UNCHANGED mpvars

\* Client addresses: private, loopback, shared and documentation space,
\* their public neighbours, and a public address of the operator's list.
ClientIps ==
  {<<10, 0, 0, 1>>, <<127, 0, 0, 1>>, <<100, 64, 0, 1>>, <<100, 128, 0, 1>>,
   <<172, 31, 255, 1>>, <<172, 32, 0, 1>>, <<203, 0, 113, 7>>, <<8, 8, 8, 8>>,
   <<8, 8, 4, 4>>, <<1, 1, 1, 1>>}

\* PutObject requests, one at a time, and between them GetObject requests
\* from any client address, under every mode, gateway and private list.
NextGet ==
  \/ \E id \in Ids, body \in Bodies :
       Quiescent /\ PutReceive(id, "b1", <<"a", "x">>, body, NoHeader)
  \/ PutSteps
  \/ \E k \in {<<"a", "x">>, <<"x">>}, ip \in ClientIps :
       Quiescent /\ get_object("b1", k, ip)

InitGet ==
  Init /\ config.auth = NoAuth /\ NoTrim /\ AutoMime /\ capacity = config.concurrent_multipart_upload
SpecGet == InitGet /\ [][NextGet]_vars

\* A GetObject that found its row.
Found == resp.by = "get_object" /\ resp.metadata # NoRow

\* C19: a GetObject of an existing object is answered, in auto mode, 200
\* with the cat stream of the CID when the client address is in an RFC 6890
\* range or in a configured private network and 307 with Location
\* {gateway}/ipfs/{cid} otherwise; in proxy mode always 200, in redirect
\* mode always 307.
C19_AutoMode ==
  Found =>
    LET r == resp.response
        cid == resp.metadata.cid
    IN /\ config.mode = "proxy" => r.status = 200
       /\ config.mode = "redirect" => r.status = 307
       /\ config.mode = "auto" =>
            IF is_private(config, resp.client_ip)
            THEN r.status = 200 /\ r.body = get_content(cid)
            ELSE /\ r.status = 307
                 /\ r.headers["location"] = to_string(config.gateway) \o <<"ipfs", cid>>

\* The headers both kinds of answer are to carry.
Auxiliary == {"etag", "cache-control", "last-modified", "x-ipfs-path",
              "x-ipfs-roots", "content-type"}

\* C20: a GetObject answered 307 has the ETag, Cache-Control,
\* Last-Modified, x-ipfs-path, x-ipfs-roots and Content-Type headers of the
\* 200 answer for the same row, and differs from it by the Location header
\* and the empty body only.
C20_RedirectHeaders ==
  (Found /\ resp.response.status = 307) =>
    LET r == resp.response
        p == proxy(config, resp.metadata)
    IN /\ Auxiliary \subseteq DOMAIN r.headers
       /\ \A h \in Auxiliary : r.headers[h] = p.headers[h]
       /\ DOMAIN r.headers \ {"location"} = DOMAIN p.headers
       /\ \A h \in DOMAIN p.headers : r.headers[h] = p.headers[h]
       /\ r.body = <<>>

\* ------------------------------------------------------------------ streaming bodies
\* A body is a sequence of bytes, each written as the character it shows.
CR == "CR"
LF == "LF"
HexChars == <<"0", "1", "2", "3", "4", "5", "6", "7", "8", "9",
              "a", "b", "c", "d", "e", "f">>
IsHex(c) == \E i \in 1..16 : HexChars[i] = c
HexValue(c) == (CHOOSE i \in 1..16 : HexChars[i] = c) - 1

\* usize::from_str_radix(s, 16): the value, or -1 for a ParseIntError (an
\* empty string, a character that is no hex digit, more digits than a
\* usize holds).
RECURSIVE from_str_radix(_, _)
from_str_radix(str, acc) ==
  IF str = <<>> THEN acc
  ELSE from_str_radix(Tail(str), acc * 16 + HexValue(Head(str)))
parse_chunk_size(str) ==
  IF str = <<>> \/ Len(str) > 16 \/ \E i \in 1..Len(str) : ~IsHex(str[i]) THEN -1
  ELSE from_str_radix(str, 0)

\* AsyncBufReadExt::read_until: the bytes up to and with the first
\* delimiter, or all bytes when there is none.
read_until(bytes, delim) ==
  IF \E i \in 1..Len(bytes) : bytes[i] = delim
  THEN SubSeq(bytes, 1, CHOOSE i \in 1..Len(bytes) :
                          bytes[i] = delim /\ \A j \in 1..(i - 1) : bytes[j] # delim)
  ELSE bytes

\* What is left of the reader after n bytes.
Drop(bytes, n) == SubSeq(bytes, n + 1, Len(bytes))

\* authorization.rs 405-410: the length of "chunk-signature=", of the 64
\* hex digits and of the line end that follow the ";" of a frame.
signature_buffer == 82
\* authorization.rs 416-417: the line end after the bytes of a chunk.
newline == 2

\* authorization.rs 416-417: the reader after the line end of a chunk.
keep_newline(rest) == rest
drop_newline(rest) == Drop(rest, newline)

\* The stream that replaces the body: what it was given, what is left to
\* read, the bytes it has yielded, and whether it is open, has ended
\* ("complete"), has yielded an error ("error") or has panicked ("panic").
Stream(body, rest, out, state) ==
  [by |-> "streaming_chunk_body", body |-> body, rest |-> rest, out |-> out,
   state |-> state]

\* authorization.rs 389-395: the body becomes the reader of the stream.
streaming_chunk_body(body) ==
  /\ resp' = Stream(body, body, <<>>, "open")
  /\ UNCHANGED <<config, index, now, mfs, pinned, req, nreq, faults, everLive>>
  /\ UNCHANGED mpvars

\* authorization.rs 395-420: one round of the closure of try_unfold. A
\* read of the body may fail; the slice that cuts the delimiter off panics
\* when nothing was read.
try_unfold ==
  /\ resp.by = "streaming_chunk_body" /\ resp.state = "open"
  /\ \/ /\ faults < MaxFaults
        /\ faults' = faults + 1
        /\ resp' = [resp EXCEPT !.state = "error"]
     \/ /\ UNCHANGED faults
        /\ LET size_varint == read_until(resp.rest, ";")
               after_size == Drop(resp.rest, Len(size_varint))
               chunk_size == parse_chunk_size(SubSeq(size_varint, 1, Len(size_varint) - 1))
               after_signature == Drop(after_size, signature_buffer)
               chunk_buffer == SubSeq(after_signature, 1, chunk_size)
               after_chunk == Drop(after_signature, chunk_size)
           IN resp' =
                IF size_varint = <<>> THEN [resp EXCEPT !.state = "panic"]
                ELSE IF chunk_size = -1
                  THEN [resp EXCEPT !.state = "error", !.rest = after_size]
                ELSE IF chunk_size = 0
                  THEN [resp EXCEPT !.state = "complete", !.rest = after_size]
                ELSE IF \/ Len(after_size) < signature_buffer
                        \/ Len(after_signature) < chunk_size
                        \/ Len(after_chunk) < newline
                  THEN [resp EXCEPT !.state = "error", !.rest = <<>>]
                ELSE [resp EXCEPT !.out = @ \o chunk_buffer,
                                  !.rest = drop_newline(after_chunk)]
  /\ UNCHANGED <<config, index, now, mfs, pinned, req, nreq, everLive>>
  /\ UNCHANGED mpvars

\* --- the bodies a client sends
ToHex(n) == <<HexChars[n + 1]>>
Repeat(c, n) == [i \in 1..n |-> c]
\* ";chunk-signature=<64 hex>\r\n" with every digit of the signature d.
ChunkSignature(d) ==
  <<";", "c", "h", "u", "n", "k", "-", "s", "i", "g", "n", "a", "t", "u", "r", "e", "=">>
    \o Repeat(d, 64) \o <<CR, LF>>
Frame(payload, d) == ToHex(Len(payload)) \o ChunkSignature(d) \o payload \o <<CR, LF>>
RECURSIVE Frames(_, _)
Frames(payloads, d) ==
  IF payloads = <<>> THEN Frame(<<>>, d)
  ELSE Frame(Head(payloads), d) \o Frames(Tail(payloads), d)

\* Payload lists: none, the one of the example, one whose bytes look like
\* frame syntax.
PayloadLists ==
  {<<>>, <<<<"f", "o", "o">>, <<"h", "e", "l", "l", "o">>>>, <<<<";", "0">>, <<"a">>>>}
SignatureDigits == {"0", "f"}
\* What may follow the zero-size frame.
Trailers == {<<>>, <<"x">>, Frame(<<"z">>, "0")}
\* Well-formed bodies, each with the payloads it carries.
WellFormed ==
  {[payloads |-> ps, bytes |-> Frames(ps, d) \o t] :
     ps \in PayloadLists, d \in SignatureDigits, t \in Trailers}

\* Bodies that are cut short, and bodies whose size field is wrong:
\* prefixes of a one-frame body that end before its zero-size frame (in
\* the size, in the signature, in the chunk, in its line end, after it,
\* and in the size of the zero-size frame), a size that is no hex number,
\* a size without ";".
OneFrame == Frames(<<<<"a">>>>, "0")
FrameLen == Len(Frame(<<"a">>, "0"))
CutPoints == {0, 1, 2, 40, FrameLen - 4, FrameLen - 3, FrameLen - 2, FrameLen - 1,
              FrameLen, FrameLen + 1}
Truncated == {SubSeq(OneFrame, 1, n) : n \in CutPoints}
Malformed ==
  Truncated
    \cup {<<"g">> \o ChunkSignature("0") \o <<"a", CR, LF>>,
          <<"1">> \o Tail(ChunkSignature("0")) \o <<"a", CR, LF>>,
          Frame(<<"a">>, "0") \o <<"0", "0">>,
          ChunkSignature("0")}

\* A PUT with a streaming body: the layer wraps the body, the Bytes
\* extractor of the handler polls the stream to its end, and the handler
\* runs with the bytes the stream yielded.
NextStreaming ==
  \/ \E b \in {w.bytes : w \in WellFormed} \cup Malformed :
       Quiescent /\ streaming_chunk_body(b)
  \/ try_unfold
  \/ \E id \in Ids :
       /\ Quiescent
       /\ resp.by = "streaming_chunk_body" /\ resp.state = "complete"
       /\ PutReceive(id, "b1", <<"a", "x">>, resp.out, NoHeader)
  \/ PutSteps

InitStreaming ==
  Init /\ config.mode = "auto" /\ config.gateway = DwebLink /\ config.private_cidrs = <<>>
       /\ config.auth = AuthConfig /\ NoTrim /\ AutoMime
       /\ capacity = config.concurrent_multipart_upload
SpecStreaming == InitStreaming /\ [][NextStreaming]_vars

\* C16: the stream made from a well-formed body yields the payload bytes
\* of its frames in order, ends after the zero-size frame with exactly
\* their concatenation whatever the chunk signatures are and whatever
\* follows that frame, and fails only if a read of the body fails.
C16_StreamingPayload ==
  \A w \in WellFormed :
    (resp.by = "streaming_chunk_body" /\ resp.body = w.bytes) =>
       /\ IsPrefix(resp.out, Flatten(w.payloads))
       /\ resp.state = "complete" => resp.out = Flatten(w.payloads)
       /\ resp.state # "panic"
       /\ resp.state = "error" => faults > 0

\* C16 witness: the body of the example, with signature digits f and a
\* frame after the zero-size frame, has ended, and the object the handler
\* stored holds the bytes "foohello".
C16_Witness ==
  /\ resp.by = "streaming_chunk_body" /\ resp.state = "complete"
  /\ resp.body = Frames(<<<<"f", "o", "o">>, <<"h", "e", "l", "l", "o">>>>, "f")
                   \o Frame(<<"z">>, "0")
  /\ resp.out = <<"f", "o", "o", "h", "e", "l", "l", "o">>
  /\ \E r \in index : r.cid = CidOf(resp.out)

\* C17: the stream made from a truncated or malformed body ends with an
\* error: it does not panic and does not end as a complete body does.
C17_StreamingErrors ==
  (resp.by = "streaming_chunk_body" /\ resp.body \in Malformed) =>
     resp.state \in {"open", "error"}

\* ------------------------------------------------------------------ SigV4
\* A text is the sequence of its characters.
Uppers == <<"A", "B", "C", "D", "E", "F", "G", "H", "I", "J", "K", "L", "M",
            "N", "O", "P", "Q", "R", "S", "T", "U", "V", "W", "X", "Y", "Z">>
Lowers == <<"a", "b", "c", "d", "e", "f", "g", "h", "i", "j", "k", "l", "m",
            "n", "o", "p", "q", "r", "s", "t", "u", "v", "w", "x", "y", "z">>
Digits == {"0", "1", "2", "3", "4", "5", "6", "7", "8", "9"}
IsUpper(c) == \E i \in 1..26 : Uppers[i] = c
IsLower(c) == \E i \in 1..26 : Lowers[i] = c
to_lowercase_char(c) ==
  IF IsUpper(c) THEN Lowers[CHOOSE i \in 1..26 : Uppers[i] = c] ELSE c
to_uppercase_char(c) ==
  IF IsLower(c) THEN Uppers[CHOOSE i \in 1..26 : Lowers[i] = c] ELSE c
to_lowercase(text) == [i \in 1..Len(text) |-> to_lowercase_char(text[i])]

\* The bytes of the characters that are not unreserved, as two hex digits
\* each; a character beyond ASCII has two bytes.
ByteCodes ==
  <<[char |-> "/", hex |-> <<<<"2", "F">>>>],
    [char |-> "%", hex |-> <<<<"2", "5">>>>],
    [char |-> " ", hex |-> <<<<"2", "0">>>>],
    [char |-> "=", hex |-> <<<<"3", "D">>>>],
    [char |-> "+", hex |-> <<<<"2", "B">>>>],
    [char |-> "e'", hex |-> <<<<"C", "3">>, <<"A", "9">>>>]>>

\* authorization.rs 116-120: PERCENT_ENCODE_SET leaves letters, digits,
\* '-', '.', '_' and '~'.
Unreserved(c) == IsUpper(c) \/ IsLower(c) \/ c \in Digits \/ c \in {"-", ".", "_", "~"}
percent_encode_char(c) ==
  IF Unreserved(c) THEN <<c>>
  ELSE LET code == CHOOSE i \in 1..Len(ByteCodes) : ByteCodes[i].char = c
       IN Flatten([j \in 1..Len(ByteCodes[code].hex) |-> <<"%">> \o ByteCodes[code].hex[j]])
percent_encode(text) == Flatten([i \in 1..Len(text) |-> percent_encode_char(text[i])])

\* url form_urlencoded decoding, as query_pairs does it: '+' is a space,
\* '%' with two hex digits of either case is the byte they name, any other
\* character is itself. A byte that no character of the model has stays
\* as its escape.
IsHexDigit(c) == c \in Digits \/ to_uppercase_char(c) \in {"A", "B", "C", "D", "E", "F"}
SingleByte(h) ==
  {i \in 1..Len(ByteCodes) : ByteCodes[i].hex = <<h>>}
RECURSIVE percent_decode(_)
percent_decode(text) ==
  IF text = <<>> THEN <<>>
  ELSE IF Head(text) = "+" THEN <<" ">> \o percent_decode(Tail(text))
  ELSE IF /\ Head(text) = "%" /\ Len(text) >= 3
          /\ IsHexDigit(text[2]) /\ IsHexDigit(text[3])
    THEN LET h == <<to_uppercase_char(text[2]), to_uppercase_char(text[3])>>
         IN (IF SingleByte(h) # {}
             THEN <<ByteCodes[CHOOSE i \in SingleByte(h) : TRUE].char>>
             ELSE <<"%">> \o h)
              \o percent_decode(SubSeq(text, 4, Len(text)))
  ELSE <<Head(text)>> \o percent_decode(Tail(text))

\* The elements of a sequence with the number of times each occurs: what a
\* sorted sequence, joined, tells of it.
Sorted(seq) ==
  [x \in {seq[i] : i \in 1..Len(seq)} |-> Cardinality({i \in 1..Len(seq) : seq[i] = x})]

\* str::split.
RECURSIVE Split(_, _, _)
Split(text, sep, cur) ==
  IF text = <<>> THEN <<cur>>
  ELSE IF Head(text) = sep THEN <<cur>> \o Split(Tail(text), sep, <<>>)
  ELSE Split(Tail(text), sep, Append(cur, Head(text)))

\* str::trim.
RECURSIVE trim_start(_)
trim_start(text) ==
  IF text # <<>> /\ Head(text) = " " THEN trim_start(Tail(text)) ELSE text
RECURSIVE trim_end(_)
trim_end(text) ==
  IF text # <<>> /\ text[Len(text)] = " " THEN trim_end(SubSeq(text, 1, Len(text) - 1))
  ELSE text
trim(text) == trim_end(trim_start(text))

\* HeaderValue::to_str succeeds on visible ASCII, space and tab.
to_str_ok(value) == \A i \in 1..Len(value) : value[i] # "e'"

\* SHA-256, HMAC-SHA256 and hex::encode: different inputs give different
\* outputs. A hex text is the bytes it encodes and the position of a digit
\* that was replaced by another one (0: none).
Sha256(data) == <<"sha256", data>>
sign(key, data) == <<"hmac", key, data>>
hex_encode(bytes) == [hex |-> bytes, altered |-> 0]

\* authorization.rs 126-134: every segment of the raw path is encoded.
canonicalize_uri(path) == [i \in 1..Len(path) |-> percent_encode(path[i])]

\* authorization.rs 136-151: the pairs are decoded, x-amz-signature in any
\* letter case is left out, keys and values are encoded and the parts are
\* sorted.
XAmzSignature == <<"x", "-", "a", "m", "z", "-", "s", "i", "g", "n", "a", "t", "u", "r", "e">>
\* A value of a query pair is a text, or, where the model has no use for
\* its characters, what the text stands for: the names of
\* X-Amz-SignedHeaders, a signature. Such a value has no escapes.
decode_value(v) == IF "text" \in DOMAIN v THEN [text |-> percent_decode(v.text)] ELSE v
encode_value(v) == IF "text" \in DOMAIN v THEN [text |-> percent_encode(v.text)] ELSE v
query_pairs(query) ==
  [i \in 1..Len(query) |->
     [k |-> percent_decode(query[i].k), v |-> decode_value(query[i].v)]]
canonicalize_query_string(query) ==
  LET pairs == query_pairs(query)
      kept == SelectSeq(pairs, LAMBDA p : to_lowercase(p.k) # XAmzSignature)
  IN Sorted([i \in 1..Len(kept) |-> <<percent_encode(kept[i].k), encode_value(kept[i].v)>>])

\* HeaderMap::get: the first value of the name, or none.
NoValue == <<"no-value">>
\* A part of the request that is not there.
NoPart == [none |-> TRUE]
header_get(headers, name) ==
  IF \E i \in 1..Len(headers) : headers[i].name = name
  THEN headers[CHOOSE i \in 1..Len(headers) :
                 headers[i].name = name /\ \A j \in 1..(i - 1) : headers[j].name # name].value
  ELSE NoValue

\* authorization.rs 153-170: per signed name the first value, trimmed, or
\* the empty text when the header is missing or is no str; sorted.
canonicalize_headers(headers, signed_headers) ==
  Sorted([i \in 1..Len(signed_headers) |->
            LET v == header_get(headers, signed_headers[i])
            IN <<signed_headers[i],
                 IF v # NoValue /\ to_str_ok(v) THEN trim(v) ELSE <<>>>>])

\* authorization.rs 123.
EMTPY_BODY_HASH == <<"sha256", <<>>>>

\* authorization.rs 73-80.
NoSign == [none |-> TRUE]
AuthenticationRequest(credential, date, region, service, string_to_sign, signature) ==
  [credential |-> credential, date |-> date, region |-> region, service |-> service,
   string_to_sign |-> string_to_sign, signature |-> signature]

string_to_sign(date_time, date, region, service, canonical_request) ==
  <<"AWS4-HMAC-SHA256", date_time, date, region, service, "aws4_request",
    hex_encode(Sha256(canonical_request))>>

\* authorization.rs 177-266. The Authorization header is its parts: the
\* text of Credential, the names of SignedHeaders, the Signature.
from_authorization_header(request) ==
  LET a == request.authorization
      date_time == header_get(request.headers, "x-amz-date")
  IN IF a = NoPart \/ date_time = NoValue \/ ~to_str_ok(date_time) THEN NoSign
     ELSE IF a.credential = NoValue \/ a.signed_headers = NoValue \/ a.signature = NoPart
       THEN NoSign
     ELSE LET c == Split(a.credential, "/", <<>>)
              sha == header_get(request.headers, "x-amz-content-sha256")
              body_hash == IF sha # NoValue /\ to_str_ok(sha) THEN sha ELSE EMTPY_BODY_HASH
          IN IF Len(c) < 4 THEN NoSign
             ELSE AuthenticationRequest(c[1], c[2], c[3], c[4],
                    string_to_sign(date_time, c[2], c[3], c[4],
                      <<request.method, canonicalize_uri(request.path),
                        canonicalize_query_string(request.query),
                        canonicalize_headers(request.headers, a.signed_headers),
                        a.signed_headers, body_hash>>),
                    a.signature)

\* The value of the last pair whose lower-cased decoded key is the name
\* (the pairs are collected into a HashMap), or none.
query_remove(query, name) ==
  LET pairs == query_pairs(query)
      hits == {i \in 1..Len(pairs) : to_lowercase(pairs[i].k) = name}
  IN IF hits = {} THEN NoPart
     ELSE pairs[CHOOSE i \in hits : \A j \in hits : j <= i].v

XAmzCredential == <<"x", "-", "a", "m", "z", "-", "c", "r", "e", "d", "e", "n", "t", "i", "a", "l">>
XAmzSignedHeaders ==
  <<"x", "-", "a", "m", "z", "-", "s", "i", "g", "n", "e", "d", "h", "e", "a", "d", "e", "r", "s">>
XAmzDate == <<"x", "-", "a", "m", "z", "-", "d", "a", "t", "e">>

\* authorization.rs 272-331.
from_query_params(request) ==
  LET access_key_id == query_remove(request.query, XAmzCredential)
      signature == query_remove(request.query, XAmzSignature)
      signed == query_remove(request.query, XAmzSignedHeaders)
      signed_headers == IF signed = NoPart THEN <<>> ELSE signed.names
      date_time == query_remove(request.query, XAmzDate)
  IN IF access_key_id = NoPart \/ signature = NoPart \/ date_time = NoPart THEN NoSign
     ELSE LET c == Split(access_key_id.text, "/", <<>>)
          IN IF Len(c) < 5 THEN NoSign
             ELSE AuthenticationRequest(c[1], c[2], c[3], c[4],
                    string_to_sign(date_time.text, c[2], c[3], c[4],
                      <<request.method, canonicalize_uri(request.path),
                        canonicalize_query_string(request.query),
                        canonicalize_headers(request.headers, signed_headers),
                        signed_headers, "UNSIGNED-PAYLOAD">>),
                    signature)

\* authorization.rs 91-103: the signature the secret derives.
derived_signature(s, secret_key) ==
  LET date_key == sign(<<"AWS4", secret_key>>, s.date)
      date_region_key == sign(date_key, s.region)
      date_region_service_key == sign(date_region_key, s.service)
      sign_key == sign(date_region_service_key, "aws4_request")
  IN hex_encode(sign(sign_key, s.string_to_sign))

\* authorization.rs 84-106.
is_valid(s, auth) ==
  /\ s.credential = auth.access_key
  /\ derived_signature(s, auth.secret_key) = s.signature

\* A variant that takes the query variant first.
authentication_request_query_first(request) ==
  LET sign_ == from_query_params(request)
  IN IF sign_ # NoSign THEN sign_ ELSE from_authorization_header(request)
\* authorization.rs 351-353: the header variant, or else the query variant.
authentication_request(request) ==
  LET sign_ == from_authorization_header(request)
  IN IF sign_ # NoSign THEN sign_ ELSE from_query_params(request)
authorized(request, auth) ==
  LET sign_ == authentication_request(request)
  IN sign_ # NoSign /\ is_valid(sign_, auth)

\* ------------------------------------------------------------------ dispatch
\* authorization.rs 357-360: STREAMING-AWS4-HMAC-SHA256-PAYLOAD, by its first
\* word.
STREAMING == <<"S", "T", "R", "E", "A", "M", "I", "N", "G">>

TextValue(text) == [text |-> text]
NamesValue(names) == [names |-> names]

\* The path captures, percent-decoded by the Path extractor, as the names
\* the handlers of the model know.
NameOf(segment) ==
  LET text == percent_decode(segment)
  IN CASE text = <<"b", "1">> -> "b1"
       [] text = <<"x">> -> "x"
       [] text = <<"y">> -> "y"
       [] text = <<"a">> -> "a"
       [] OTHER -> "other"
KeyOf(path) == [i \in 1..(Len(path) - 1) |-> NameOf(path[i + 1])]

\* main.rs 126-128, s3/mod.rs 67-85: the route of a path.
Healthz == <<"h", "e", "a", "l", "t", "h", "z">>
route(request) ==
  IF request.path = <<Healthz>> THEN "healthz"
  ELSE IF Len(request.path) >= 2 THEN "object"
  ELSE IF Len(request.path) = 1 THEN "bucket"
  ELSE "none"

Answer(by, request, response) == [by |-> by, request |-> request, response |-> response]
Untouched ==
  /\ UNCHANGED <<config, index, now, mfs, pinned, req, nreq, faults, everLive>>
  /\ UNCHANGED mpvars

\* Option: None and Some(value).
None == <<>>
Some(value) == <<value>>
\* ipfs.rs 30-44: what the node's version call answers.
RpcVersion == "kubo"

\* info.rs 19-24: db_status and rpc_status from the two pings.
db_status_of(db_ok) == IF db_ok THEN Some("connected") ELSE None
rpc_status_of(rpc_ok) == IF rpc_ok THEN Some(RpcVersion) ELSE None

\* A variant that is content with one of the two.
health_status_either(db_status, rpc_status) ==
  IF db_status # None \/ rpc_status # None THEN 200 ELSE 503

\* info.rs 26-30: 200 when both are Some, 503 otherwise.
health_status(db_status, rpc_status) ==
  IF db_status # None /\ rpc_status # None THEN 200 ELSE 503

\* info.rs 15-42: the index is pinged (database.rs 92-97, false on any
\* error, a closed pool included), then the node (ipfs.rs 99-107); whether
\* they answer is the environment's choice. The timestamp of the body is
\* left out.
health_check(request) ==
  /\ \E db_ok \in IF PoolClosed THEN {FALSE} ELSE BOOLEAN, rpc_ok \in BOOLEAN :
       LET db_status == db_status_of(db_ok)
           rpc_status == rpc_status_of(rpc_ok)
           status == health_status(db_status, rpc_status)
       IN resp' = Answer("health_check", request,
                         [status |-> status, headers |-> <<>>,
                          body |-> [status |-> status, db_status |-> db_status,
                                    rpc_status |-> rpc_status, mode |-> config.mode]])
  /\ UNCHANGED <<config, index, now, mfs, pinned, req, nreq, faults, everLive>>
  /\ UNCHANGED mpvars

\* s3/mod.rs 78-85: the handlers of /{bucket}/{*key} that the model has, by
\* method; any other method is answered 405 by the route. The handlers of
\* /{bucket} are not part of the model, and no request of it has this path.
inner(request) ==
  CASE request.method = "PUT" ->
         \E id \in Ids :
           PutReceive(id, NameOf(request.path[1]), KeyOf(request.path), request.body, NoHeader)
    [] request.method = "DELETE" ->
         \E id \in Ids :
           DeleteReceive(id, NameOf(request.path[1]), KeyOf(request.path))
    [] request.method = "GET" ->
         get_object(NameOf(request.path[1]), KeyOf(request.path), request.client_ip)
    [] OTHER -> resp' = Answer("route", request, StatusOnly(405)) /\ Untouched

\* authorization.rs 368-372.
Unauthorized(request) ==
  /\ resp' = Answer("authorization", request, StatusOnly(401))
  /\ Untouched

\* The layer left out: every request reaches its handler.
call_unchecked(request) == inner(request)
\* authorization.rs 348-374.
call(request) ==
  IF authorized(request, config.auth)
  THEN IF header_get(request.headers, "x-amz-content-sha256") = STREAMING
       THEN streaming_chunk_body(request.body)
       ELSE inner(request)
  ELSE Unauthorized(request)

\* s3/mod.rs 86-91: option_layer, the layer only when auth is configured.
option_layer(request) ==
  IF config.auth = NoAuth THEN inner(request) ELSE call(request)

\* s3/mod.rs 92-108: the CORS layer around it answers a preflight itself.
CorsLayer(request) ==
  IF request.method = "OPTIONS"
  THEN resp' = Answer("cors", request, StatusOnly(200)) /\ Untouched
  ELSE option_layer(request)

\* main.rs 126-129: /healthz beside the S3 routes; a path no route has is
\* answered 404 by the router.
Service(request) ==
  CASE route(request) = "healthz" /\ request.method = "GET" -> health_check(request)
    [] route(request) \in {"object", "bucket"} -> CorsLayer(request)
    [] OTHER -> resp' = Answer("router", request, StatusOnly(404)) /\ Untouched

\* --- the requests of the clients
Header(name, value) == [name |-> name, value |-> value]
Pair(k, v) == [k |-> k, v |-> v]
Request(method, path, query, headers, authorization, body) ==
  [method |-> method, path |-> path, query |-> query, headers |-> headers,
   authorization |-> authorization, body |-> body, client_ip |-> <<10, 0, 0, 1>>]

Unsigned == hex_encode(<<>>)
HostHeader == Header("host", <<"h">>)
DateHeader == Header("x-amz-date", <<"t">>)
\* Credential=AK/d/r/s/aws4_request, written with q for the last part.
Scope(access_key) == access_key \o <<"/", "d", "/", "r", "/", "s", "/", "q">>
Authorization(access_key, signed_headers) ==
  [credential |-> Scope(access_key), signed_headers |-> signed_headers,
   signature |-> Unsigned]
\* A key with an escaped '/', and a plain one.
EscapedKey == <<"a", "%", "2", "F", "b">>
PlainPair == Pair(<<"k">>, TextValue(<<"1">>))
\* The parameters of a presigned URL, as the SDKs spell them.
Presigned(access_key) ==
  <<Pair(<<"X", "-", "A", "m", "z", "-", "C", "r", "e", "d", "e", "n", "t", "i", "a", "l">>,
         TextValue(Scope(access_key))),
    Pair(<<"X", "-", "A", "m", "z", "-", "D", "a", "t", "e">>, TextValue(<<"t">>)),
    Pair(<<"X", "-", "A", "m", "z", "-", "S", "i", "g", "n", "e", "d",
           "H", "e", "a", "d", "e", "r", "s">>, NamesValue(<<"host">>)),
    Pair(<<"X", "-", "A", "m", "z", "-", "S", "i", "g", "n", "a", "t", "u", "r", "e">>,
         Unsigned)>>

Object == <<<<"b", "1">>, <<"x">>>>
\* Requests before they are signed: the header variant and the presigned
\* variant, with the credentials the client holds.
Drafts(access_key) ==
  {Request("PUT", Object, <<>>, <<HostHeader, DateHeader>>,
           Authorization(access_key, <<"host", "x-amz-date">>), <<1>>),
   Request("GET", Object, <<PlainPair, Pair(EscapedKey, TextValue(<<"1">>))>>,
           <<HostHeader, DateHeader>>,
           Authorization(access_key, <<"host", "x-amz-date">>), <<>>),
   Request("PUT", Object, <<>>,
           <<HostHeader, DateHeader, Header("x-meta", <<"e'", "1">>)>>,
           Authorization(access_key, <<"host", "x-amz-date", "x-meta">>), <<2>>),
   Request("DELETE", Object, <<>>, <<HostHeader, DateHeader>>,
           Authorization(access_key, <<"host", "x-amz-date">>), <<>>),
   Request("GET", Object, <<PlainPair, Pair(EscapedKey, TextValue(<<"1">>))>> \o Presigned(access_key),
           <<HostHeader>>, NoPart, <<>>)}

\* The signature a client puts into its request: the one SigV4 derives
\* with the secret the client holds.
IsSignaturePair(p) == to_lowercase(percent_decode(p.k)) = XAmzSignature
WithSignature(request, signature) ==
  IF request.authorization # NoPart
  THEN [request EXCEPT !.authorization.signature = signature]
  ELSE [request EXCEPT !.query =
          [i \in 1..Len(request.query) |->
             IF IsSignaturePair(request.query[i])
             THEN Pair(request.query[i].k, signature) ELSE request.query[i]]]
Signed(request, secret_key) ==
  WithSignature(request, derived_signature(authentication_request(request), secret_key))
SignatureOf(request) ==
  IF request.authorization # NoPart THEN request.authorization.signature
  ELSE query_remove(request.query, XAmzSignature)

\* The requests of a client that holds the credentials of the service.
Genuine == {Signed(d, AuthConfig.secret_key) : d \in Drafts(AuthConfig.access_key)}

\* One change to a request on its way.
Changes == {"signature", "path", "host", "date", "meta", "query-key",
            "query-key-escape", "signature-key"}
SetHeader(headers, name, value) ==
  [i \in 1..Len(headers) |->
     IF headers[i].name = name THEN Header(name, value) ELSE headers[i]]
SetKey(query, from, to) ==
  [i \in 1..Len(query) |-> IF query[i].k = from THEN Pair(to, query[i].v) ELSE query[i]]
Changed(request, change) ==
  CASE change = "signature" ->
         WithSignature(request, [SignatureOf(request) EXCEPT !.altered = 1])
    [] change = "path" -> [request EXCEPT !.path = <<<<"b", "1">>, <<"y">>>>]
    [] change = "host" -> [request EXCEPT !.headers = SetHeader(@, "host", <<"g">>)]
    [] change = "date" -> [request EXCEPT !.headers = SetHeader(@, "x-amz-date", <<"u">>)]
    [] change = "meta" -> [request EXCEPT !.headers = SetHeader(@, "x-meta", <<"e'", "2">>)]
    [] change = "query-key" -> [request EXCEPT !.query = SetKey(@, <<"k">>, <<"j">>)]
    [] change = "query-key-escape" ->
         [request EXCEPT !.query = SetKey(@, EscapedKey, <<"a", "%", "2", "f", "b">>)]
    [] change = "signature-key" ->
         [request EXCEPT !.query =
            SetKey(@, <<"X", "-", "A", "m", "z", "-", "S", "i", "g", "n", "a", "t", "u", "r", "e">>,
                      <<"x", "-", "A", "m", "z", "-", "S", "i", "g", "n", "a", "t", "u", "r", "e">>)]
Tampered == {Changed(g, c) : g \in Genuine, c \in Changes} \ Genuine

\* Requests of clients without the credentials: not signed at all, signed
\* with another secret, signed for another access key.
Strangers ==
  {[d EXCEPT !.authorization = NoPart, !.query = <<>>] :
     d \in {e \in Drafts(AuthConfig.access_key) : e.method # "DELETE"}}
    \cup {Signed(d, <<"X">>) : d \in {e \in Drafts(AuthConfig.access_key) : e.method = "GET"}}
    \cup {Signed(d, AuthConfig.secret_key) : d \in {e \in Drafts(<<"Z">>) : e.method = "GET"}}

\* Requests that are not for an object: the probe, a preflight, the root.
Others ==
  {Request("GET", <<Healthz>>, <<>>, <<HostHeader>>, NoPart, <<>>),
   Request("OPTIONS", Object, <<>>, <<HostHeader>>, NoPart, <<>>),
   Request("GET", <<>>, <<>>, <<HostHeader>>, NoPart, <<>>)}

Requests == Genuine \cup Tampered \cup Strangers \cup Others

\* The request on the connection waits to be served: no handler has taken
\* it (a PutObject or DeleteObject handler that takes it counts it).
Waiting == resp.by = "connection" /\ resp.seen = nreq

\* A request arrives on the connection, when the request before it was
\* served and the handlers and tasks have finished; the last PutObject or
\* DeleteObject the bounds allow is left to the other specifications.
Receive(request) ==
  /\ Quiescent /\ ~Waiting
  /\ request.method \in {"PUT", "DELETE"} => nreq < MaxRequests - 1
  /\ resp' = [by |-> "connection", request |-> request, seen |-> nreq]
  /\ Untouched

\* The request that has arrived is served.
Serve ==
  /\ Waiting
  /\ Service(resp.request)

\* The service with and without credentials.
NextAuth ==
  \/ \E request \in Requests : Receive(request)
  \/ Serve
  \/ PutSteps
  \/ \E id \in Ids : DeleteUnlink(id)
  \/ \E id \in Ids : DeleteRow(id)

InitAuth ==
  Init /\ config.mode = "auto" /\ config.gateway = DwebLink /\ config.private_cidrs = <<>>
       /\ NoTrim /\ AutoMime /\ capacity = config.concurrent_multipart_upload
SpecAuth == InitAuth /\ [][NextAuth]_vars

\* ------------------------------------------------------------------ claims C14, C15
\* The stores and the registry.
state_of_service == <<index, mfs, pinned, req, nreq, slots, creating, nupload, uploaded>>

Rejected(request) ==
  /\ resp' = Answer("authorization", request, StatusOnly(401))
  /\ UNCHANGED state_of_service

\* No response so far is a 401.
No401 ==
  /\ "response" \in DOMAIN resp => resp.response.status # 401
  /\ \A id \in Ids : req[id].status # 401
  /\ \A i \in 1..Len(mlog) : mlog[i].status # 401

C15_Verifier ==
  [][(/\ config.auth # NoAuth /\ Serve
        /\ route(resp.request) = "object" /\ resp.request.method # "OPTIONS") =>
          LET s == authentication_request(resp.request)
              accepted == /\ s # NoSign
                          /\ s.credential = config.auth.access_key
                          /\ s.signature = derived_signature(s, config.auth.secret_key)
          IN /\ Rejected(resp.request) <=> ~accepted
             /\ resp.request \in Tampered => Rejected(resp.request)]_vars

\* ------------------------------------------------------------------ requests in turn
\* The client of a request goes away while its handler waits for the index
\* or for the node: the server drops the handler's future at that await,
\* no later statement of the handler runs and nothing is answered. A task
\* the handler has spawned is not dropped with it.
Cancel(id) ==
  /\ req[id].op \in {"put", "delete"}
  /\ req[id].status = 0 /\ req[id].pc # "done"
  /\ req' = [req EXCEPT ![id] = [@ EXCEPT !.pc = "done", !.cancelled = TRUE]]
  /\ UNCHANGED <<config, resp, index, now, mfs, pinned, nreq, faults, everLive>>
  /\ UNCHANGED mpvars

\* PutObjects and DeleteObjects of one key, each received after the one
\* before it and its task have finished; a call may fail and a client may
\* go away.
NextSerial ==
  \/ \E id \in Ids, body \in Bodies :
       Quiescent /\ PutReceive(id, "b1", <<"a", "x">>, body, NoHeader)
  \/ \E id \in Ids : Quiescent /\ DeleteReceive(id, "b1", <<"a", "x">>)
  \/ \E id \in Ids : DeleteUnlink(id)
  \/ \E id \in Ids : DeleteRow(id)
  \/ \E id \in Ids : Cancel(id)
  \/ PutSteps

SpecSerial == InitObjects /\ [][NextSerial]_vars

\* ------------------------------------------------------------------ claims C21, C22
\* The order of the calls of one DeleteObject.
DeleteCallOrder ==
  <<"get_object_metadata", "files_rm", "delete_object", "cid_count", "pin_rm">>

\* C21: a DeleteObject makes its calls in the order read row, files rm of
\* the object's path, delete row, ref-count, pin_remove, the last one only
\* if the count is zero; it is answered 204 exactly when the row existed
\* and each of these calls succeeded, with x-ipfs-path and x-ipfs-roots of
\* the deleted CID; on an absent object it is answered 404 (500 if the
\* lookup failed) with no call but the lookup, so without a call of the
\* node and without a write of the index.
C21_DeleteOrder ==
  \A id \in Ids :
    LET r == req[id]
    IN r.op = "delete" =>
         /\ IsPrefix(r.calls, DeleteCallOrder)
         /\ r.old # NoRow => (r.old.bucket = r.bucket /\ r.old.key = r.key)
         /\ Called(r, "pin_rm") => r.remaining = 0
         /\ r.status = 204 =>
              /\ r.old # NoRow
              /\ r.calls = IF r.remaining = 0 THEN DeleteCallOrder
                           ELSE SubSeq(DeleteCallOrder, 1, 4)
              /\ r.roots = r.old.cid
              /\ r.ipfs_path = <<"/ipfs/", r.old.cid>>
         /\ (r.old # NoRow /\ r.pc = "done") => r.status \in {204, 500}
         /\ (r.old = NoRow /\ r.pc = "done") =>
              /\ r.status = 404 \/ (r.status = 500 /\ faults > 0)
              /\ r.calls = <<"get_object_metadata">>
         /\ r.status = 404 => r.old = NoRow

\* C21 witness: a DeleteObject answered 204 that unpinned the CID, and one
\* answered 404.
C21_Witness ==
  /\ \E id \in Ids : req[id].op = "delete" /\ req[id].status = 204
                      /\ req[id].calls = DeleteCallOrder
  /\ \E id \in Ids : req[id].op = "delete" /\ req[id].status = 404

\* C22: a failure of unpin_if_orphan (of its ref-count query or of its
\* pin_remove) makes a DeleteObject answer 500; in the task a PutObject
\* spawned the result is dropped: the PutObject was answered 200 before the
\* task ran and stays answered 200 with its ETag, whatever the result.
C22_UnpinFailure ==
  \A id \in Ids :
    LET r == req[id]
    IN /\ (r.op = "delete" /\ r.unpin = "failed") => (r.status = 500 /\ r.pc = "done")
       /\ (r.op = "delete" /\ r.unpin = "ok") => r.status = 204
       /\ (r.op = "put" /\ Called(r, "cid_count")) =>
            (r.status = 200 /\ r.etag = etag_value(r.cid))
       /\ (r.op = "put" /\ r.unpin # "none") => r.pc = "done"

\* C22 witness: a DeleteObject whose orphan check failed, after a PutObject
\* whose task ran the orphan check.
C22_Witness ==
  /\ \E id \in Ids : req[id].op = "delete" /\ req[id].unpin = "failed"
  /\ \E id \in Ids : req[id].op = "put" /\ req[id].unpin # "none"

\* ------------------------------------------------------------------ DeleteObjects
\* post_bucket.rs 14-34: the body of POST /{bucket}?delete as quick_xml
\* reads it, a Delete element with one Object element per key, and what is
\* no such document.
Malformed_xml == [malformed |-> TRUE]
DeleteObjectsPayload(keys) == [object |-> keys]
DeletedObjectsResponse(deleted, error) == [deleted |-> deleted, error |-> error]

\* A variant that reports every entry as deleted.
push_deleted(response, entry, ok) ==
  [response EXCEPT !.deleted = Append(@, entry)]

\* post_bucket.rs 165-168: the entry goes to the list of its result.
push_result(response, entry, ok) ==
  IF ok THEN [response EXCEPT !.deleted = Append(@, entry)]
  ELSE [response EXCEPT !.error = Append(@, entry)]

\* The entries of the request whose result is recorded.
Recorded(r) == Len(r.response.deleted) + Len(r.response.error)

\* A DeleteObjects request is being handled.
InBulk == resp.by = "modify_bucket" /\ resp.status = 0

\* post_bucket.rs 137-149, 178: POST /{bucket} arrives. Without the delete
\* parameter it is answered 501, with a body that is no Delete document
\* 400; otherwise the handler starts on the entries. The entries are
\* handled by delete_object, one request record each: base is the number
\* of requests before the first.
modify_bucket(bucket, delete, body) ==
  /\ Quiescent /\ ~InBulk
  /\ LET r == [by |-> "modify_bucket", bucket |-> bucket, body |-> body,
               base |-> nreq, response |-> DeletedObjectsResponse(<<>>, <<>>),
               status |-> 0]
     IN IF ~delete THEN resp' = [r EXCEPT !.status = 501]
        ELSE IF body = Malformed_xml THEN resp' = [r EXCEPT !.status = 400]
        ELSE /\ nreq + Len(body.object) <= MaxRequests
             /\ resp' = r
  /\ Untouched

\* post_bucket.rs 150-155: delete_object is called for the next entry, with
\* the bucket of the request, the key of the entry and no query parameter.
BulkCall(id) ==
  /\ InBulk
  /\ id = resp.base + Recorded(resp) + 1
  /\ DeleteReceive(id, resp.bucket, resp.body.object[Recorded(resp) + 1])

\* post_bucket.rs 163-175: delete_object has returned; its entry is
\* recorded, and after the last entry the response is sent.
BulkRecord ==
  /\ InBulk
  /\ LET id == resp.base + Recorded(resp) + 1
         entry == resp.body.object[Recorded(resp) + 1]
     IN /\ id <= nreq /\ req[id].status # 0
        /\ resp' = [resp EXCEPT
              !.response = push_result(@, entry, req[id].status = 204),
              !.status = IF Recorded(resp) + 1 = Len(resp.body.object)
                         THEN 200 ELSE 0]
  /\ Untouched

BulkKeys == {<<"a", "x">>, <<"x">>}
BulkBodies ==
  {Malformed_xml} \cup
  {DeleteObjectsPayload(keys) :
     keys \in {<<k>> : k \in BulkKeys} \cup (BulkKeys \X BulkKeys)}

\* PutObjects and DeleteObjects requests of one bucket, one request after
\* another.
NextBulk ==
  \/ \E id \in Ids, k \in BulkKeys :
       Quiescent /\ ~InBulk /\ PutReceive(id, "b1", k, <<1>>, NoHeader)
  \/ \E delete \in BOOLEAN, body \in BulkBodies : modify_bucket("b1", delete, body)
  \/ \E id \in Ids : BulkCall(id)
  \/ BulkRecord
  \/ \E id \in Ids : DeleteUnlink(id)
  \/ \E id \in Ids : DeleteRow(id)
  \/ PutSteps

SpecBulk == InitObjects /\ [][NextBulk]_vars

\* ------------------------------------------------------------------ claim C23
\* The request record of the i-th entry of the DeleteObjects request.
EntryRequest(i) == req[resp.base + i]

\* The entries among the first n whose DeleteObject was answered 204
\* (wanted = TRUE) or otherwise (wanted = FALSE), in request order.
RECURSIVE EntriesWith(_, _)
EntriesWith(n, wanted) ==
  IF n = 0 THEN <<>>
  ELSE LET rest == EntriesWith(n - 1, wanted)
       IN IF (EntryRequest(n).status = 204) = wanted
          THEN Append(rest, resp.body.object[n]) ELSE rest

\* C23: a DeleteObjects request with a well-formed body runs the
\* DeleteObject of its bucket and of each listed key, one after another in
\* request order, and is answered 200 when the last one has returned;
\* each entry handled so far is in exactly one list, Deleted iff its
\* DeleteObject was answered 204, and each list keeps the request order;
\* an entry whose key an earlier entry of the request deleted is under
\* Error.
C23_DeleteObjects ==
  (resp.by = "modify_bucket" /\ resp.status \in {0, 200}) =>
    LET keys == resp.body.object
        n == Recorded(resp)
    IN /\ n <= Len(keys)
       /\ (resp.status = 200) <=> (n = Len(keys))
       /\ resp.status = 0 => nreq \in {resp.base + n, resp.base + n + 1}
       /\ \A i \in 1..(IF resp.status = 0 THEN nreq - resp.base ELSE n) :
            /\ EntryRequest(i).op = "delete"
            /\ EntryRequest(i).bucket = resp.bucket
            /\ EntryRequest(i).key = keys[i]
            /\ EntryRequest(i).open = {}
       /\ resp.response.deleted = EntriesWith(n, TRUE)
       /\ resp.response.error = EntriesWith(n, FALSE)
       /\ \A i, j \in 1..n :
            (i < j /\ keys[i] = keys[j] /\ EntryRequest(i).status = 204)
              => EntryRequest(j).status # 204

\* C23 witness: a DeleteObjects request that lists a stored key twice was
\* answered, with the key once under Deleted and once under Error.
C23_Witness ==
  /\ resp.by = "modify_bucket" /\ resp.status = 200
  /\ resp.response = DeletedObjectsResponse(<<<<"a", "x">>>>, <<<<"a", "x">>>>)

\* ------------------------------------------------------------------ directory trimmer
\* The characters of a key: its segments joined by "/". The segments of
\* the keys of the trimmer's scenarios are one character each.
join(key) ==
  Flatten([i \in 1..Len(key) |-> IF i = 1 THEN <<key[i]>> ELSE <<"/", key[i]>>])

\* A variant that compares the characters as they are.
same_char(p, c) == p = c

\* database.rs 191: LIKE of SQLite. A letter of the pattern matches the
\* same letter in either case, "_" matches any one character.
like_char(p, c) == p = "_" \/ to_lowercase_char(p) = to_lowercase_char(c)

\* database.rs 188, 191: object_key LIKE '{ancestor}/%'; "%" matches what
\* is left of the key, nothing included.
like(ancestor, object_key) ==
  LET pattern == join(ancestor) \o <<"/">>
      text == join(object_key)
  IN /\ Len(text) >= Len(pattern)
     /\ \A i \in 1..Len(pattern) : like_char(pattern[i], text[i])

\* database.rs 189-196: SELECT count(1) ... where bucket = ? and object_key LIKE ?
like_count(idx, bucket, ancestor) ==
  Cardinality({r \in idx : r.bucket = bucket /\ like(ancestor, r.key)})

\* database.rs 184-210, delete_object.rs 91-100: one turn of the loop of
\* find_shallowest_removable_directory, a query of the index. An ancestor
\* without rows becomes the answer so far and the walk goes on with its
\* parent; the walk ends at an ancestor with rows and after the last
\* ancestor (the empty path that ends the chain is filtered out). A failed
\* query ends the task. The task goes on to files rm if the walk answered
\* a path and normalized_path accepts it.
TrimQuery(id) ==
  /\ req[id].pc = "find"
  /\ LET t == req[id].task
         ancestor == SubSeq(t.key, 1, t.depth)
         result == like_count(index, t.bucket, ancestor)
         shallow == IF result = 0 THEN ancestor ELSE t.shallow
         ended == result # 0 \/ t.depth = 1
         to_remove ==
           /\ shallow # NoPath
           /\ normalized_path(folder_prefix, t.bucket, shallow) # PathError
     IN \/ /\ req' = [req EXCEPT ![id] = [@ EXCEPT
                 !.task = [t EXCEPT !.views = @ \cup {index},
                                    !.shallow = shallow,
                                    !.depth = IF result = 0 THEN @ - 1 ELSE @,
                                    !.result = IF ended THEN "ok" ELSE "pending"],
                 !.pc = IF ~ended THEN "find"
                        ELSE IF to_remove THEN "trim" ELSE "done"]]
           /\ UNCHANGED faults
        \/ /\ MayFail
           /\ faults' = faults + 1
           /\ req' = [req EXCEPT ![id] = [@ EXCEPT
                 !.task = [t EXCEPT !.result = "error"], !.pc = "done"]]
  /\ UNCHANGED <<config, resp, index, now, mfs, pinned, nreq, everLive>>
  /\ UNCHANGED mpvars

\* delete_object.rs 101: files rm of the directory; the result is dropped.
TrimUnlink(id) ==
  /\ req[id].pc = "trim"
  /\ LET t == req[id].task
         path == normalized_path(folder_prefix, t.bucket, t.shallow)
     IN \/ /\ mfs' = files_rm(mfs, path)
           /\ req' = [req EXCEPT ![id] = [@ EXCEPT
                 !.task = [t EXCEPT !.path = path, !.removed = files_rm_ok(mfs, path)],
                 !.pc = "done"]]
           /\ UNCHANGED faults
        \/ /\ MayFail
           /\ faults' = faults + 1
           /\ req' = [req EXCEPT ![id] = [@ EXCEPT
                 !.task = [t EXCEPT !.path = path], !.pc = "done"]]
           /\ UNCHANGED mfs
  /\ UNCHANGED <<config, resp, index, now, pinned, nreq, everLive>>
  /\ UNCHANGED mpvars

\* Every request received so far has been answered or given up.
Answered == \A id \in Ids : req[id].op # "idle" => (req[id].status # 0 \/ req[id].pc = "done")

TrimKeys == {<<"a", "x", "y", "z">>, <<"a", "x", "w">>, <<"A", "w">>, <<"w">>}

\* PutObjects and DeleteObjects of one bucket, with the trimmer on or off;
\* a request is received when the requests before it are answered, while
\* the tasks they spawned may still run.
NextTrim ==
  \/ \E id \in Ids, k \in TrimKeys :
       Answered /\ PutReceive(id, "b1", k, <<1>>, NoHeader)
  \/ \E id \in Ids, k \in TrimKeys : Answered /\ DeleteReceive(id, "b1", k)
  \/ \E id \in Ids : DeleteUnlink(id)
  \/ \E id \in Ids : DeleteRow(id)
  \/ \E id \in Ids : TrimQuery(id)
  \/ \E id \in Ids : TrimUnlink(id)
  \/ PutSteps

InitTrim == Init /\ Defaults /\ capacity = config.concurrent_multipart_upload
SpecTrim == InitTrim /\ [][NextTrim]_vars

\* ------------------------------------------------------------------ claims C24, C25
\* The ancestor chain of a key as the walk takes it: the key and the
\* directories above it, up to its first segment.
Chain(key) == {SubSeq(key, 1, n) : n \in 1..Len(key)}

\* A row of the bucket has a key with prefix 'A/'.
HasRowUnder(idx, bucket, A) ==
  \E r \in idx : /\ r.bucket = bucket
                  /\ Len(r.key) > Len(A) /\ SubSeq(r.key, 1, Len(A)) = A

\* The shallowest path of the chain without such a row, if there is one.
ShallowestRemovable(idx, bucket, key) ==
  LET removable == {A \in Chain(key) : ~HasRowUnder(idx, bucket, A)}
  IN IF removable = {} THEN NoPath
     ELSE CHOOSE A \in removable : \A B \in removable : Len(A) <= Len(B)

\* The tasks whose walk has answered, all queries having read the same
\* contents of the index.
Walked(id) ==
  /\ req[id].task # NoTask
  /\ req[id].task.result = "ok"
  /\ Cardinality(req[id].task.views) = 1

\* C24: find_shallowest_removable_directory answers the shallowest path A
\* of the ancestor chain of the key such that no row of the bucket has a
\* key with prefix 'A/', and none if there is no such path; the task calls
\* files rm on the path of that answer, so for the key a/x/y/z with no
\* other object under a/ on /{prefix}/{bucket}/a.
C24_ShallowestRemovable ==
  \A id \in Ids :
    Walked(id) =>
      LET t == req[id].task
          idx == CHOOSE v \in t.views : TRUE
      IN /\ t.shallow = ShallowestRemovable(idx, t.bucket, t.key)
         /\ t.path # NoPath => t.path = normalized_path(folder_prefix, t.bucket, t.shallow)
         /\ (/\ t.key = <<"a", "x", "y", "z">>
             /\ ~HasRowUnder(idx, t.bucket, <<"a">>)
             /\ req[id].pc = "done" /\ faults = 0)
              => t.path = normalized_path(folder_prefix, t.bucket, <<"a">>)

\* The answer of a DeleteObject: status and the two headers.
Answer204(r) == <<r.status, r.roots, r.ipfs_path>>

\* C25: a directory-trim task exists only for a DeleteObject whose row
\* deletion was made and whose orphan check succeeded, that is, one that
\* was answered 204, and only with the flag on; such a request has one
\* task, which is not started again; the path the task removes is an
\* ancestor of the deleted key for which a query of the index counted no
\* row; a failed query or a failed files rm of the task leaves the 204
\* answer as it is.
C25_TrimTask ==
  /\ [](\A id \in Ids :
         LET r == req[id]
         IN /\ r.task # NoTask <=>
                 (r.op = "delete" /\ r.status = 204 /\ config.trim_empty_folders)
            /\ r.task # NoTask =>
                 /\ Called(r, "delete_object") /\ r.unpin = "ok"
                 /\ r.task.bucket = r.old.bucket /\ r.task.key = r.old.key
                 /\ r.task.path # NoPath =>
                      \E A \in Chain(r.task.key) :
                        /\ r.task.path = normalized_path(folder_prefix, r.task.bucket, A)
                        /\ \E v \in r.task.views : like_count(v, r.task.bucket, A) = 0)
  /\ [][\A id \in Ids :
          req[id].task # NoTask =>
            /\ req'[id].task # NoTask
            /\ req'[id].task.depth <= req[id].task.depth
            /\ req[id].task.result # "pending" => req'[id].task.result = req[id].task.result
            /\ Answer204(req'[id]) = Answer204(req[id])]_vars

\* C25 witness: the task of a DeleteObject of a/x/y/z has read the index
\* twice and its third query failed; the request is answered 204.
C25_Witness ==
  \E id \in Ids :
    /\ req[id].task # NoTask /\ req[id].status = 204
    /\ req[id].task.key = <<"a", "x", "y", "z">>
    /\ req[id].task.depth = 2 /\ req[id].task.result = "error"

\* ------------------------------------------------------------------ claim C26
\* A PutObject that ended without its upsert (a call failed or its client
\* went away) after the node had added its bytes.
Interrupted(i) ==
  /\ req[i].op = "put" /\ req[i].pc = "done" /\ req[i].status # 200
  /\ req[i].cid # NoCid

\* Request j is the first PutObject or DeleteObject of the key of request
\* i that was answered with success after i, it has finished with its
\* task, and nothing was received after it.
RepairedBy(i, j) ==
  /\ i < j /\ j = nreq
  /\ req[j].bucket = req[i].bucket /\ req[j].key = req[i].key
  /\ req[j].status \in {200, 204} /\ req[j].pc = "done"
  /\ \A k \in (i + 1)..(j - 1) : req[k].status \notin {200, 204}

\* The MFS entry of a key agrees with the index: the file of the row's CID
\* if there is a row, no file otherwise.
MfsAgrees(bucket, key) ==
  LET path == normalized_path(folder_prefix, bucket, key)
  IN IF RowsOf(bucket, key) = {}
     THEN \A e \in mfs : e.path # path
     ELSE \A r \in RowsOf(bucket, key) : MfsEntryOf(r) \in mfs

\* C26: after a PutObject was interrupted between the add and the commit
\* of its upsert, the next successful PutObject or DeleteObject of the
\* same key leaves the MFS entry of the key in agreement with the index
\* and the CID the interrupted request added, if no row references it,
\* not pinned.
C26_Repair ==
  \A i, j \in Ids :
    (Interrupted(i) /\ RepairedBy(i, j)) =>
      /\ MfsAgrees(req[i].bucket, req[i].key)
      /\ ~Referenced(req[i].cid) => req[i].cid \notin pinned

\* ------------------------------------------------------------------ graceful shutdown
\* main.rs 141-144: axum::serve starts to accept connections.
serve ==
  /\ resp = NoResponse
  /\ resp' = [by |-> "serve", phase |-> "serving", pool |-> "open"]
  /\ UNCHANGED <<config, index, now, mfs, pinned, req, nreq, faults, everLive>>
  /\ UNCHANGED mpvars

Serving(phases) == resp.by = "serve" /\ resp.phase \in phases

\* main.rs 32-54 and 146-153: SIGINT or SIGTERM arrives, the future given
\* to with_graceful_shutdown goes on and calls close() on the pool, which
\* marks the pool closed at once and then waits for its connections.
shutdown_signal ==
  /\ Serving({"serving"})
  /\ resp' = [resp EXCEPT !.phase = "closing", !.pool = "closed"]
  /\ UNCHANGED <<config, index, now, mfs, pinned, req, nreq, faults, everLive>>
  /\ UNCHANGED mpvars

\* main.rs 147-156: close() has returned or the three seconds are over;
\* the future completes and only now serve stops accepting.
graceful_shutdown ==
  /\ Serving({"closing"})
  /\ resp' = [resp EXCEPT !.phase = "draining"]
  /\ UNCHANGED <<config, index, now, mfs, pinned, req, nreq, faults, everLive>>
  /\ UNCHANGED mpvars

\* A request whose response has not been written and whose connection is
\* still there.
InFlight(r) == r.op # "idle" /\ r.status = 0 /\ ~r.cancelled

\* main.rs 157-160: serve returns when no connection is busy, run and main
\* return and the runtime drops the tasks that were spawned.
serve_return ==
  /\ Serving({"draining"})
  /\ \A id \in Ids : ~InFlight(req[id])
  /\ resp' = [resp EXCEPT !.phase = "exited"]
  /\ UNCHANGED <<config, index, now, mfs, pinned, req, nreq, faults, everLive>>
  /\ UNCHANGED mpvars

\* The listener accepts a connection.
Accepting == Serving({"serving", "closing"})
\* The process runs.
Running == Serving({"serving", "closing", "draining"})

\* A step that calls the index: with the pool closed it takes its Err
\* branch.
DbCall(A) == Running /\ A /\ (PoolClosed => faults' = faults + 1)
\* A step that calls the IPFS node: the pool does not matter to it.
IpfsCall(A) == Running /\ A /\ (faults' # faults => faults < MaxFaults)

\* The service from its start to its exit: PutObjects and DeleteObjects of
\* one key, each received after the one before it has finished, and the
\* signal at any moment.
NextShutdown ==
  \/ serve
  \/ shutdown_signal
  \/ graceful_shutdown
  \/ serve_return
  \/ \E id \in Ids, body \in Bodies :
       Accepting /\ Quiescent
                 /\ DbCall(PutReceive(id, "b1", <<"a", "x">>, body, NoHeader))
  \/ \E id \in Ids :
       Accepting /\ Quiescent /\ DbCall(DeleteReceive(id, "b1", <<"a", "x">>))
  \/ \E id \in Ids : IpfsCall(PutAdd(id))
  \/ \E id \in Ids : IpfsCall(PutCp(id))
  \/ \E id \in Ids : DbCall(PutUpsert(id))
  \/ \E id \in Ids : DbCall(UnpinCount(id))
  \/ \E id \in Ids : IpfsCall(UnpinRemove(id))
  \/ \E id \in Ids : IpfsCall(DeleteUnlink(id))
  \/ \E id \in Ids : DbCall(DeleteRow(id))

SpecShutdown == InitObjects /\ [][NextShutdown]_vars

\* ------------------------------------------------------------------ claim C27
\* The calls of the index.
IndexCalls ==
  {"get_object_metadata", "store_object_metadata", "delete_object", "cid_count"}

\* In this step request id calls the index.
CallsIndex(id) ==
  /\ Len(req'[id].calls) = Len(req[id].calls) + 1
  /\ req'[id].calls[Len(req'[id].calls)] \in IndexCalls

\* C27: after the signal the service stops accepting before it closes the
\* index pool: while a connection can be accepted or a request is in
\* flight the pool is open, and no request calls the index with the pool
\* closed.
C27_GracefulShutdown ==
  /\ [](PoolClosed => (~Accepting /\ \A id \in Ids : ~InFlight(req[id])))
  /\ [][\A id \in Ids : CallsIndex(id) => ~PoolClosed]_vars

\* ------------------------------------------------------------------ HeadObject
\* A variant that reports the size of an empty object.
head_content_length_zero(metadata) == 0

\* head_object.rs 37: the Content-Length header.
head_content_length(metadata) == metadata.size

\* head_object.rs 35-52: the response for a row.
head_response(metadata) ==
  [status |-> 200,
   headers |-> [h \in {"content-length", "content-type", "cache-control", "etag",
                       "last-modified", "x-ipfs-path", "x-ipfs-roots"} |->
                  CASE h = "content-length" -> head_content_length(metadata)
                    [] h = "content-type" -> metadata.content_type
                    [] h = "cache-control" -> "public, max-age=29030400, immutable"
                    [] h = "etag" -> etag_value(metadata.cid)
                    [] h = "last-modified" -> http_date(metadata.updated_at)
                    [] h = "x-ipfs-path" -> ipfs_path(metadata.cid)
                    [] h = "x-ipfs-roots" -> metadata.cid],
   body |-> <<>>]

\* head_object.rs 10-53: the row is read, then the response is built; what
\* the handler was given and what it read are kept with the response
\* (history).
head_object_metadata(bucket, key) ==
  /\ \/ /\ faults < MaxFaults
        /\ faults' = faults + 1
        /\ resp' = [by |-> "head_object", bucket |-> bucket, key |-> key,
                    metadata |-> NoRow, response |-> StatusOnly(500)]
     \/ /\ UNCHANGED faults
        /\ LET metadata == get_object_metadata(index, bucket, key)
           IN resp' = [by |-> "head_object", bucket |-> bucket, key |-> key,
                       metadata |-> metadata,
                       response |-> IF metadata = NoRow THEN StatusOnly(404)
                                    ELSE head_response(metadata)]
  /\ UNCHANGED <<config, index, now, mfs, pinned, req, nreq, everLive>>
  /\ UNCHANGED mpvars

\* Bodies of three lengths.
RoundTripBodies == {<<>>, <<1>>, <<2, 3>>}

\* PutObjects and DeleteObjects of one key in turn, a call of which may
\* fail and whose client may go away, and at any moment a HeadObject or a
\* GetObject of the key, with the service in proxy mode.
NextRoundTrip ==
  \/ \E id \in Ids, body \in RoundTripBodies :
       Quiescent /\ PutReceive(id, "b1", <<"a", "x">>, body, NoHeader)
  \/ \E id \in Ids : Quiescent /\ DeleteReceive(id, "b1", <<"a", "x">>)
  \/ \E id \in Ids : DeleteUnlink(id)
  \/ \E id \in Ids : DeleteRow(id)
  \/ \E id \in Ids : Cancel(id)
  \/ PutSteps
  \/ head_object_metadata("b1", <<"a", "x">>)
  \/ get_object("b1", <<"a", "x">>, <<8, 8, 8, 8>>)

InitRoundTrip ==
  /\ Init /\ NoTrim /\ AutoMime /\ capacity = config.concurrent_multipart_upload
  /\ config.mode = "proxy" /\ config.gateway = DwebLink
  /\ config.private_cidrs = <<>> /\ config.auth = NoAuth
SpecRoundTrip == InitRoundTrip /\ [][NextRoundTrip]_vars

\* ------------------------------------------------------------------ claim C28
\* The latest of the requests in a set, 0 if there is none.
Latest(S) == IF S = {} THEN 0 ELSE CHOOSE id \in S : \A other \in S : other <= id

\* The latest request of the key that was answered with success.
LastSuccessful(bucket, key) ==
  Latest({id \in Ids : /\ req[id].bucket = bucket /\ req[id].key = key
                       /\ req[id].status \in {200, 204}})

\* A request that has changed the row of its key: a PutObject whose upsert
\* is committed, a DeleteObject whose deletion of the row is committed.
Committed(r) ==
  \/ r.op = "put" /\ r.status = 200
  \/ /\ r.op = "delete" /\ Called(r, "delete_object")
     /\ ~(r.status = 500 /\ r.calls[Len(r.calls)] = "delete_object")

\* The latest request of the key that has changed its row.
LastCommitted(bucket, key) ==
  Latest({id \in Ids : /\ req[id].bucket = bucket /\ req[id].key = key
                       /\ Committed(req[id])})

\* This step is the handler named by answering.
Answers(by) ==
  /\ resp'.by = by
  /\ req' = req /\ index' = index

\* The response is the one for an object of body B, or 500 after a lookup
\* that failed.
RoundTripOf(response, by, B) ==
  \/ response = StatusOnly(500)
  \/ /\ response.status = 200
     /\ response.headers["etag"] = etag_value(CidOf(B))
     /\ by = "head_object" =>
          /\ response.headers["content-length"] = Len(B)
          /\ response.body = <<>>
     /\ by = "get_object" => response.body = get_content(CidOf(B))

\* The round trip, the writer of the object being request id.
RoundTrip(id) ==
  \A by \in {"head_object", "get_object"} :
    (Answers(by) /\ id # 0 /\ req[id].op = "put") =>
      RoundTripOf(resp'.response, by, req[id].body)

\* C28 as stated: from a PutObject of body B answered with success until
\* the next PutObject or DeleteObject of the key answered with success, a
\* HeadObject answers 200 with the length of B and the ETag of B's CID and
\* a GetObject in proxy mode answers 200 with the cat of that CID.
C28_UntilNextSuccessful ==
  [][RoundTrip(LastSuccessful("b1", <<"a", "x">>))]_vars

\* C28: from a PutObject of body B answered with success until the next
\* PutObject or DeleteObject of the key that commits its change of the
\* row, whatever that request answers, a HeadObject whose lookup succeeds
\* answers 200 with Content-Length = |B| and ETag W/{cid of B} and no
\* body, and a GetObject in proxy mode whose lookup succeeds answers 200
\* with the cat of that CID as its body.
C28_RoundTrip ==
  [][RoundTrip(LastCommitted("b1", <<"a", "x">>))]_vars

\* A HeadObject answered 200 for the two-byte object that a PutObject had
\* stored over an earlier object.
C28_Witness ==
  /\ resp.by = "head_object" /\ resp.response.status = 200
  /\ resp.response.headers["content-length"] = 2
  /\ \E i, j \in Ids : /\ i < j /\ req[i].op = "put" /\ req[i].status = 200
                        /\ req[j].op = "put" /\ req[j].status = 200
                        /\ req[i].body # req[j].body /\ req[j].body = <<2, 3>>

\* ------------------------------------------------------------------ claim C29
\* This step answers a GET /healthz.
AnswersHealthz == resp' # resp /\ resp'.by = "health_check"

\* C29: GET /healthz answers 200 when the ping of the index and the
\* version call of the node both succeeded and 503 in the three other
\* cases, and the step changes nothing of the index, the node, the requests
\* and the registry.
C29_Healthz ==
  [][AnswersHealthz =>
       /\ resp'.response.status =
            (IF /\ resp'.response.body.db_status = Some("connected")
                /\ resp'.response.body.rpc_status = Some(RpcVersion)
             THEN 200 ELSE 503)
       /\ resp'.response.body.db_status \in {Some("connected"), None}
       /\ resp'.response.body.rpc_status \in {Some(RpcVersion), None}
       /\ UNCHANGED <<stores, req, nreq, faults, mpvars>>]_vars

\* A 503 with the index connected and the node silent, while an object is
\* stored.
C29_Witness ==
  /\ resp.by = "health_check" /\ resp.response.status = 503
  /\ resp.response.body.db_status = Some("connected")
  /\ resp.response.body.rpc_status = None
  /\ index # {}

\* ------------------------------------------------------------------ content types
\* Keys with and without an extension, and a Content-Type header that is
\* neither the guess for the one nor the default.
MimeKeys == {<<"a", "x.txt">>, <<"a", "x">>}
MimeHeaders == {NoHeader, "image/png"}

\* No upload is open or being created.
NoUploadOpen == Len_(slots) = 0 /\ creating = <<>>

\* PutObjects with and without a Content-Type header and multipart uploads
\* of one part, of keys with and without an extension, one request after
\* the other, under both values of auto_mime.
NextMime ==
  \/ \E id \in Ids, k \in MimeKeys, h \in MimeHeaders :
       Quiescent /\ NoUploadOpen /\ PutReceive(id, "b1", k, <<1>>, h)
  \/ PutSteps
  \/ Quiescent /\ NoUploadOpen /\ CreateCheck
  \/ \E i \in 1..MaxMultipartOps : CreateInsert(i)
  \/ \E u \in DOMAIN slots : slots[u] = <<>> /\ UploadPart(u, 2, <<2>>)
  \/ \E id \in Ids, u \in DOMAIN slots, k \in MimeKeys :
       slots[u] # <<>> /\ CompleteMultipartUpload(id, u, "b1", k)
  \/ \E id \in Ids : CompletePut(id)

InitMime ==
  /\ Init /\ NoTrim /\ capacity = config.concurrent_multipart_upload
  /\ config.mode = "auto" /\ config.gateway = DwebLink
  /\ config.private_cidrs = <<>> /\ config.auth = NoAuth
SpecMime == InitMime /\ [][NextMime]_vars

\* ------------------------------------------------------------------ claim C30
\* The content type the claim gives a stored object.
ClaimedContentType(r) ==
  IF r.via = NoUpload /\ r.header # NoHeader THEN r.header
  ELSE IF config.auto_mime THEN mime_guess(r.key)
  ELSE OctetStream

\* C30: the row a PutObject stores has the request's Content-Type if the
\* request has one, otherwise the type of the key's extension (or
\* application/octet-stream) if auto_mime is on, otherwise
\* application/octet-stream; the row a CompleteMultipartUpload stores has
\* the type of the second or third rule.
C30_ContentType ==
  \A id \in Ids :
    (req[id].op = "put" /\ req[id].status = 200) =>
      req[id].stored.content_type = ClaimedContentType(req[id])

\* With auto_mime off: a key with an extension stored as
\* application/octet-stream by a CompleteMultipartUpload, and a PutObject
\* whose header was stored.
C30_Witness ==
  /\ ~config.auto_mime
  /\ \E id \in Ids : /\ req[id].via # NoUpload /\ req[id].status = 200
                      /\ req[id].key = <<"a", "x.txt">>
                      /\ req[id].stored.content_type = OctetStream
  /\ \E id \in Ids : /\ req[id].via = NoUpload /\ req[id].status = 200
                      /\ req[id].stored.content_type = "image/png"

\* ------------------------------------------------------------------ debug formatting
\* cli.rs 88-92: no credentials for the node.
NoRpcCredentials == [none |-> TRUE]

\* A variant that formats the field as derive(Debug) would.
fmt_AuthConfig_derived(auth) ==
  <<<<"AuthConfig">>, <<"access_key">>, auth.access_key,
    <<"secret_key">>, auth.secret_key>>

\* authorization.rs 29-36: Debug of AuthConfig, as the words it writes.
fmt_AuthConfig(auth) ==
  <<<<"AuthConfig">>, <<"access_key">>, auth.access_key,
    <<"secret_key">>, <<"REDACTED">>>>

\* cli.rs 57-64: Debug of RpcCredentials.
fmt_RpcCredentials(credentials) ==
  <<<<"RpcCredentials">>, <<"username">>, credentials.username,
    <<"password">>, <<"REDACTED">>>>

\* cli.rs 70-125: the derived Debug of RunConfig, of which the two fields
\* that hold secrets are written; an Option is written as None or Some(..).
fmt_RunConfig(cfg) ==
  <<<<"RunConfig">>, <<"rpc_credentials">>>>
    \o (IF cfg.rpc_credentials = NoRpcCredentials THEN <<<<"None">>>>
        ELSE <<<<"Some">>>> \o fmt_RpcCredentials(cfg.rpc_credentials))
    \o <<<<"auth">>>>
    \o (IF cfg.auth = NoAuth THEN <<<<"None">>>>
        ELSE <<<<"Some">>>> \o fmt_AuthConfig(cfg.auth))

\* What a line of output holds: the config dump (main.rs 68-71), the
\* debug event of run (main.rs 92), the trace event of is_valid for a
\* credential that is not the access key (authorization.rs 89-92).
output_of(line, cfg, credential) ==
  CASE line = "config" -> fmt_RunConfig(cfg)
    [] line = "Loaded configuration" -> <<<<"Loaded configuration">>>> \o fmt_RunConfig(cfg)
    [] line = "Mismatch data" -> <<<<"Mismatch data">>, credential, cfg.auth.access_key>>

\* Access keys, user names and secrets of the configurations.
AccessKeys == {<<"A", "K">>, <<"B", "K">>}
Usernames == {<<"u">>, <<"v">>}
Secrets == {<<"S", "K">>, <<"s", "1">>, <<"s", "2">>}

\* main.rs 66-86: the command line is parsed.
parse(auth, rpc_credentials) ==
  /\ resp = NoResponse
  /\ resp' = [by |-> "cli", auth |-> auth, rpc_credentials |-> rpc_credentials,
              line |-> "none", credential |-> <<>>, out |-> <<>>]
  /\ Untouched

\* One of the lines is written.
write(line, credential) ==
  /\ resp.by = "cli"
  /\ line = "Mismatch data" => (resp.auth # NoAuth /\ credential # resp.auth.access_key)
  /\ resp' = [resp EXCEPT !.line = line, !.credential = credential,
                          !.out = output_of(line, resp, credential)]
  /\ Untouched

NextLogs ==
  \/ \E auth \in {NoAuth} \cup [access_key : AccessKeys, secret_key : Secrets],
        rpc_credentials \in {NoRpcCredentials} \cup [username : Usernames, password : Secrets] :
       parse(auth, rpc_credentials)
  \/ \E line \in {"config", "Loaded configuration"} : write(line, <<>>)
  \/ \E credential \in AccessKeys \cup {<<>>} : write("Mismatch data", credential)

SpecLogs == InitObjects /\ [][NextLogs]_vars

\* ------------------------------------------------------------------ claim C31
\* The configuration with other secrets in the places of its secrets.
WithSecrets(cfg, secret_key, password) ==
  [auth |-> IF cfg.auth = NoAuth THEN NoAuth
            ELSE [cfg.auth EXCEPT !.secret_key = secret_key],
   rpc_credentials |-> IF cfg.rpc_credentials = NoRpcCredentials THEN NoRpcCredentials
                       ELSE [cfg.rpc_credentials EXCEPT !.password = password]]

SecretsOf(cfg) ==
  (IF cfg.auth = NoAuth THEN {} ELSE {cfg.auth.secret_key})
    \cup (IF cfg.rpc_credentials = NoRpcCredentials THEN {}
          ELSE {cfg.rpc_credentials.password})

\* C31: no word of a line of output is the secret key or the password of
\* the configuration, and the line is the one the service writes under
\* any configuration that differs in these secrets only.
C31_Redacted ==
  (resp.by = "cli" /\ resp.line # "none") =>
    /\ \A i \in 1..Len(resp.out) : resp.out[i] \notin SecretsOf(resp)
    /\ \A secret_key \in Secrets, password \in Secrets :
         resp.out = output_of(resp.line, WithSecrets(resp, secret_key, password),
                              resp.credential)

\* The config dump of a configuration with both secrets, different ones.
C31_Witness ==
  /\ resp.by = "cli" /\ resp.line = "config"
  /\ resp.auth # NoAuth /\ resp.rpc_credentials # NoRpcCredentials
  /\ resp.auth.secret_key # resp.rpc_credentials.password
  /\ Len(resp.out) = 15
  /\ resp.out[8] = <<"REDACTED">> /\ resp.out[15] = <<"REDACTED">>

\* ------------------------------------------------------------------ claim C32
\* C32: whatever the interleaving of CreateMultipartUpload requests, the
\* registry never holds more open uploads than the capacity its check
\* compares with.
C32_NeverAboveCapacity == Len_(slots) <= capacity

\* ------------------------------------------------------------------ claim C33
\* In this step the trim task of request id has the node remove its path.
TrimRemoves(id) ==
  /\ req[id].pc = "trim" /\ req'[id].pc = "done"
  /\ faults' = faults

\* C33: the path the trim task removes is neither the MFS path of a row
\* of the index nor an ancestor of one.
C33_TrimSparesLiveRows ==
  [][\A id \in Ids :
       TrimRemoves(id) =>
         \A r \in index : ~IsPrefix(req'[id].task.path, MfsEntryOf(r).path)]_vars

\* ------------------------------------------------------------------ claim C34
\* PutObjects of a key and of a key that has no path, each received after
\* the one before it and its task have finished; a call may fail.
NextPutErrors ==
  \/ \E id \in Ids, k \in Keys, body \in Bodies :
       Quiescent /\ PutReceive(id, "b1", k, body, NoHeader)
  \/ PutSteps

SpecPutErrors == InitObjects /\ [][NextPutErrors]_vars

\* Request id, a PutObject, takes this step and has not answered 200 by
\* the end of it.
PutStepWithout200(id) ==
  /\ req'[id] # req[id]
  /\ req'[id].op = "put" /\ req'[id].status # 200

\* C34: a PutObject that answers 400 or 500 has ended, has not written the
\* index in any of its steps, and has scheduled no orphan check, so it
\* calls neither the ref-count nor pin rm.
C34_FailedPut ==
  /\ [](\A id \in Ids :
          (req[id].op = "put" /\ req[id].status \in {400, 500}) =>
            /\ req[id].pc = "done"
            /\ ~Called(req[id], "cid_count") /\ ~Called(req[id], "pin_rm")
            /\ req[id].unpin = "none")
  /\ [][\A id \in Ids : PutStepWithout200(id) => index' = index]_vars

\* A PutObject that answered 400 and one that answered 500 after its add,
\* over the row of an earlier PutObject of other bytes, which is still the
\* row of the key.
C34_Witness ==
  /\ \E id \in Ids : req[id].op = "put" /\ req[id].status = 400
  /\ \E id \in Ids :
       /\ req[id].op = "put" /\ req[id].status = 500 /\ req[id].pc = "done"
       /\ Called(req[id], "store_object_metadata")
       /\ req[id].old # NoRow /\ req[id].old.cid # req[id].cid
       /\ get_object_metadata(index, req[id].bucket, req[id].key) = req[id].old

\* ------------------------------------------------------------------ claim C35
\* C35: when the latest request is a DeleteObject that found a row and
\* answered 500, the row is still the row of the key, and the MFS entry it
\* had removed (its files rm went through if it went on to the index) is
\* there; one that answered 404 found no row and called nothing else.
C35_AllOrNothing ==
  \A id \in Ids :
    (req[id].op = "delete" /\ req[id].status \in {404, 500} /\ id = nreq) =>
      /\ req[id].old # NoRow =>
           /\ get_object_metadata(index, req[id].bucket, req[id].key) = req[id].old
           /\ Called(req[id], "delete_object") =>
                \E e \in mfs : e.path = req[id].path
      /\ req[id].status = 404 => req[id].calls = <<"get_object_metadata">>

\* ------------------------------------------------------------------ query of PUT
\* put_object.rs 21-22: partNumber is read with i8::from_str, which fails
\* outside -128..127.
i8_from_str(n) == IF n \in -128..127 THEN Some(n) ELSE None

\* A variant in which a partNumber that does not parse fails the whole
\* query.
upload_part_strict(upload_id, part_number) ==
  IF i8_from_str(part_number) = None THEN [tag |-> "Err"]
  ELSE [tag |-> "Some", part_number |-> i8_from_str(part_number)[1],
        upload_id |-> upload_id]

\* put_object.rs 17-30: the flattened Option<PutObjectMultiPartParams> of
\* the query. serde gives None for a flattened Option whose fields do not
\* deserialize, so a partNumber that does not parse makes the pair absent.
upload_part(upload_id, part_number) ==
  IF i8_from_str(part_number) = None THEN [tag |-> "None"]
  ELSE [tag |-> "Some", part_number |-> i8_from_str(part_number)[1],
        upload_id |-> upload_id]

\* put_object.rs 34-50 and on: a PUT /{bucket}/{key}?uploadId=..&partNumber=..
\* is an UploadPart when the pair is there, a PutObject of the body
\* otherwise; a query that is rejected is answered 400 by the extractor.
PutWithQuery(id, upload_id, part_number, bucket, key, body) ==
  LET params == upload_part(upload_id, part_number)
  IN IF params.tag = "Err"
     THEN /\ nmp < MaxMultipartOps /\ nmp' = nmp + 1
          /\ mlog' = Logged(Entry("upload_part", upload_id, 400, FALSE,
                                  Len_(slots), Len_(slots)))
          /\ UNCHANGED <<slots, capacity, creating, nupload, uploaded>>
          /\ UNCHANGED <<config, resp, index, now, mfs, pinned, req, nreq, faults, everLive>>
     ELSE IF params.tag = "Some"
     THEN UploadPart(params.upload_id, params.part_number, body)
     ELSE PutReceive(id, bucket, key, body, NoHeader)

\* Part numbers inside and outside the signed 8-bit range.
QueryPartNumbers == {-129, -128, 127, 128}

\* One CreateMultipartUpload, and PUTs that carry its uploadId and a
\* partNumber, one after the other; two parts at most are recorded.
NextPartNumber ==
  \/ NoUploadOpen /\ nupload = 0 /\ CreateCheck
  \/ \E i \in 1..MaxMultipartOps : CreateInsert(i)
  \/ \E id \in Ids, u \in DOMAIN slots, n \in QueryPartNumbers, body \in PartBytes :
       /\ Quiescent /\ (Len(uploaded[u]) < 2 \/ i8_from_str(n) = None)
       /\ PutWithQuery(id, u, n, "b1", <<"a", "x">>, body)
  \/ PutSteps

SpecPartNumber == InitObjects /\ [][NextPartNumber]_vars

\* ------------------------------------------------------------------ claim C36
\* C36: when every PUT carries uploadId and partNumber, no PutObject runs:
\* no request of the object path exists, nothing is added to the node and
\* no row is written.
C36_AlwaysUploadPart ==
  /\ \A id \in Ids : req[id].op = "idle"
  /\ index = {} /\ pinned = {} /\ mfs = {}

\* ------------------------------------------------------------------ UploadPart, step by step
\* put_object.rs 42: the handler holds the Ref that get returned, from the
\* lookup to the return of the response.
HoldsRef == resp # NoResponse /\ resp.by = "put_object" /\ resp.pc = "insert"

\* A variant of the map whose get hands out a handle that locks nothing.
remove_waits_never(u) == FALSE
\* limited_slots.rs 37-43: DashMap::get returns a Ref that holds the read
\* lock of its key's shard until it is dropped, and DashMap::remove takes
\* the write lock of the shard: a remove of the key waits for the Ref.
remove_waits(u) == HoldsRef /\ resp.upload = u

UploadPartCall(pc, u, part_number, body, status) ==
  [by |-> "put_object", pc |-> pc, upload |-> u, part_number |-> part_number,
   body |-> body, status |-> status]

\* put_object.rs 41-42, 49: the lookup of the upload id; 400 when it is
\* unknown.
UploadPartGet(u, part_number, body) ==
  /\ ~HoldsRef
  /\ nmp < MaxMultipartOps
  /\ nmp' = nmp + 1
  /\ \/ /\ u \in DOMAIN slots
        /\ resp' = UploadPartCall("insert", u, part_number, body, 0)
        /\ UNCHANGED mlog
     \/ /\ u \notin DOMAIN slots
        /\ resp' = UploadPartCall("done", u, part_number, body, 400)
        /\ mlog' = Logged(Entry("upload_part", u, 400, FALSE, Len_(slots), Len_(slots)))
  /\ UNCHANGED <<slots, capacity, creating, nupload, uploaded>>
  /\ UNCHANGED <<config, index, now, mfs, pinned, req, nreq, faults, everLive>>

\* put_object.rs 43-47: the insert into the parts the Ref points to, and
\* the response 200. Parts that were taken out of the registry meanwhile
\* are no longer reachable from it.
UploadPartInsert ==
  /\ HoldsRef
  /\ slots' = IF resp.upload \in DOMAIN slots
              THEN [slots EXCEPT ![resp.upload] = With(@, resp.part_number, resp.body)]
              ELSE slots
  /\ uploaded' = IF resp.upload \in DOMAIN uploaded
                 THEN [uploaded EXCEPT ![resp.upload] =
                         Append(@, <<resp.part_number, resp.body>>)]
                 ELSE uploaded
  /\ mlog' = Logged(Entry("upload_part", resp.upload, 200, TRUE, Len_(slots), Len_(slots)))
  /\ resp' = [resp EXCEPT !.pc = "done", !.status = 200]
  /\ UNCHANGED <<capacity, creating, nupload, nmp>>
  /\ UNCHANGED <<config, index, now, mfs, pinned, req, nreq, faults, everLive>>

\* Uploads whose UploadPart requests run beside the Abort and the Complete
\* of the same upload id.
NextUploadRace ==
  \/ CreateCheck
  \/ \E i \in 1..MaxMultipartOps : CreateInsert(i)
  \/ \E u \in 0..nupload, n \in PartNumbers, body \in PartBytes : UploadPartGet(u, n, body)
  \/ UploadPartInsert
  \/ \E u \in 0..nupload : ~remove_waits(u) /\ AbortMultipartUpload(u)
  \/ \E id \in Ids, u \in 0..nupload, b \in MpBuckets, k \in MpKeys :
       ~remove_waits(u) /\ CompleteMultipartUpload(id, u, b, k)
  \/ \E id \in Ids : CompletePut(id)
  \/ PutSteps

SpecUploadRace == InitDefaults /\ [][NextUploadRace]_vars

\* ------------------------------------------------------------------ claim C37
\* C37: UploadPart and CompleteMultipartUpload of one upload id do not
\* interleave. The bytes a Complete assembled are those of every part
\* answered 200 before it, the latest of each part number; in the step that
\* answers an UploadPart with 200 the upload is still in the registry and
\* holds the part; and an UploadPart answered 400 found no upload and
\* recorded nothing.
C37_UploadPartAtomic ==
  /\ [](\A id \in Ids :
          req[id].via # NoUpload => req[id].body = ExpectedBody(req[id].parts_log))
  /\ [][UploadPartInsert =>
          /\ resp.upload \in DOMAIN slots'
          /\ slots'[resp.upload][resp.part_number] = resp.body
          /\ uploaded'[resp.upload][Len(uploaded'[resp.upload])]
               = <<resp.part_number, resp.body>>]_vars
  /\ [][\A u \in 0..nupload, n \in PartNumbers, body \in PartBytes :
          (UploadPartGet(u, n, body) /\ resp'.status = 400) =>
            (u \notin DOMAIN slots /\ slots' = slots /\ uploaded' = uploaded)]_vars

\* C37 witness: an upload was completed with a part that had been answered
\* 200, and an UploadPart of the same upload id that came after the
\* Complete was answered 400.
C37_Witness ==
  \E id \in Ids :
    /\ req[id].via # NoUpload
    /\ req[id].parts_log # <<>>
    /\ req[id].body # <<>>
    /\ resp # NoResponse /\ resp.by = "put_object"
    /\ resp.upload = req[id].via /\ resp.status = 400

\* ------------------------------------------------------------------ after a DeleteObject
\* The objects written, deleted and read: one key in two buckets, two keys
\* in one bucket.
Targets == {<<"b1", <<"a", "x">>>>, <<"b2", <<"a", "x">>>>, <<"b1", <<"a", "y">>>>}

\* PutObjects and DeleteObjects of the targets, each received after the one
\* before it and its task have finished, and HeadObjects and GetObjects of
\* the targets at any moment; a call may fail.
NextAfterDelete ==
  \/ \E id \in Ids, t \in Targets :
       Quiescent /\ PutReceive(id, t[1], t[2], <<1>>, NoHeader)
  \/ \E id \in Ids, t \in Targets : Quiescent /\ DeleteReceive(id, t[1], t[2])
  \/ \E id \in Ids : DeleteUnlink(id)
  \/ \E id \in Ids : DeleteRow(id)
  \/ PutSteps
  \/ \E t \in Targets : head_object_metadata(t[1], t[2])
  \/ \E t \in Targets : get_object(t[1], t[2], <<8, 8, 8, 8>>)

SpecAfterDelete == InitRoundTrip /\ [][NextAfterDelete]_vars

\* ------------------------------------------------------------------ claim C38
\* The latest request of the object that was answered with success is a
\* DeleteObject.
Deleted(bucket, key) ==
  LET id == LastSuccessful(bucket, key)
  IN id # 0 /\ req[id].op = "delete"

\* The rows of the objects other than (bucket, key).
OtherRows(idx, bucket, key) == {r \in idx : ~(r.bucket = bucket /\ r.key = key)}

\* C38: after a DeleteObject of (bucket, key) answered 204 and until the
\* next PutObject of it answered 200, a HeadObject and a GetObject of it
\* answer 404, and a DeleteObject of it that is received answers 404 (500
\* when the lookup of the request itself fails); and no step of a
\* DeleteObject changes a row of another bucket or of another key.
C38_NotFoundAfterDelete ==
  /\ [][\A t \in Targets :
          Deleted(t[1], t[2]) =>
            /\ \A by \in {"head_object", "get_object"} :
                 (Answers(by) /\ resp' # resp /\ resp'.bucket = t[1] /\ resp'.key = t[2]) =>
                   \/ resp'.response.status = 404
                   \/ resp'.response.status = 500 /\ faults' # faults
            /\ \A id \in Ids :
                 DeleteReceive(id, t[1], t[2]) =>
                   \/ req'[id].status = 404
                   \/ req'[id].status = 500 /\ faults' # faults]_vars
  /\ [][\A id \in Ids :
          (req[id].op = "delete" /\ req'[id] # req[id]) =>
            OtherRows(index', req[id].bucket, req[id].key)
              = OtherRows(index, req[id].bucket, req[id].key)]_vars

\* C38 witness: the key was stored in two buckets and deleted in one with
\* 204; a GetObject of the deleted object answered 404 and the row of the
\* other bucket is in the index.
C38_Witness ==
  /\ Deleted("b1", <<"a", "x">>)
  /\ RowsOf("b2", <<"a", "x">>) # {}
  /\ resp.by = "get_object" /\ resp.bucket = "b1" /\ resp.key = <<"a", "x">>
  /\ resp.response.status = 404

\* C38 witness of the repeated DeleteObject: the object was deleted with
\* 204 and the DeleteObject after it answered 404.
C38_WitnessAgain ==
  \E id \in Ids :
    /\ id > 1 /\ req[id].op = "delete" /\ req[id].status = 404
    /\ req[id - 1].op = "delete" /\ req[id - 1].status = 204
    /\ req[id - 1].bucket = req[id].bucket /\ req[id - 1].key = req[id].key

\* ------------------------------------------------------------------ both variants in one request
\* A presigned GET, unsigned and signed by a client that holds the
\* credentials.
PresignedDraft ==
  Request("GET", Object, <<PlainPair>> \o Presigned(AuthConfig.access_key),
          <<HostHeader>>, NoPart, <<>>)
PresignedGenuine == Signed(PresignedDraft, AuthConfig.secret_key)

\* The Authorization header a request carries beside its query: with the
\* signature of no secret, with a part missing, with a Credential of fewer
\* than four fields.
ExtraAuthorizations ==
  LET a == Authorization(AuthConfig.access_key, <<"host">>)
  IN {a,
      [a EXCEPT !.credential = NoValue],
      [a EXCEPT !.signed_headers = NoValue],
      [a EXCEPT !.signature = NoPart],
      [a EXCEPT !.credential = AuthConfig.access_key \o <<"/", "d">>],
      Authorization(<<"Z">>, <<"host">>)}

\* Requests that carry an Authorization header and the parameters of a
\* presigned URL: either of the two signed with the secret of the service
\* or not, the x-amz-date header there or not.
BothVariants ==
  {[g EXCEPT !.authorization = a, !.headers = h] :
     g \in {PresignedGenuine, PresignedDraft},
     a \in ExtraAuthorizations,
     h \in {<<HostHeader>>, <<HostHeader, DateHeader>>}}
    \cup {Signed([g EXCEPT !.authorization = Authorization(AuthConfig.access_key, <<"host">>),
                           !.headers = <<HostHeader, DateHeader>>],
                 AuthConfig.secret_key) :
            g \in {PresignedGenuine, PresignedDraft}}

\* The service with and without credentials, and clients that send both
\* variants in one request beside the clients that send one.
NextPrecedence ==
  \/ \E request \in BothVariants \cup Genuine : Receive(request)
  \/ Serve
  \/ PutSteps
  \/ \E id \in Ids : DeleteUnlink(id)
  \/ \E id \in Ids : DeleteRow(id)

SpecPrecedence == InitAuth /\ [][NextPrecedence]_vars

\* ------------------------------------------------------------------ claim C39
\* The cases the statement lists for a header variant that cannot be
\* parsed: no Authorization or no x-amz-date header, no Credential, no
\* SignedHeaders or no Signature part.
ListedAsUnparsed(request) ==
  \/ request.authorization = NoPart
  \/ header_get(request.headers, "x-amz-date") = NoValue
  \/ request.authorization.credential = NoValue
  \/ request.authorization.signed_headers = NoValue
  \/ request.authorization.signature = NoPart

\* C39 as stated: with credentials configured, a request whose headers
\* are in none of the listed cases is judged by its header variant alone:
\* it is answered 401 unless that variant is valid, whatever its query
\* carries.
C39_AsListed ==
  [][(Serve /\ config.auth # NoAuth /\ resp.request \in BothVariants
        /\ ~ListedAsUnparsed(resp.request)) =>
       LET request == resp.request
           h == from_authorization_header(request)
       IN IF h # NoSign /\ is_valid(h, config.auth)
          THEN resp'.by = "get_object" ELSE Rejected(request)]_vars

\* C39: with credentials configured, a request with both variants is
\* judged by its header variant whenever one can be parsed from the
\* headers: it is answered 401, the service left as it is, when the header
\* variant fails validation, whatever the query carries, and it is let in
\* when the header variant is valid; the query variant decides only when no
\* authentication request can be parsed from the headers.
C39_HeaderFirst ==
  [][(Serve /\ config.auth # NoAuth /\ resp.request \in BothVariants) =>
       LET request == resp.request
           h == from_authorization_header(request)
           q == from_query_params(request)
       IN /\ (h # NoSign /\ ~is_valid(h, config.auth)) => Rejected(request)
          /\ (h # NoSign /\ is_valid(h, config.auth)) => resp'.by = "get_object"
          /\ h = NoSign =>
               IF q # NoSign /\ is_valid(q, config.auth)
               THEN resp'.by = "get_object" ELSE Rejected(request)]_vars

\* C39 witness: a request was answered 401 whose header variant parses and
\* whose query carries a valid presigned signature.
C39_Witness ==
  /\ resp.by = "authorization" /\ resp.response.status = 401
  /\ resp.request \in BothVariants
  /\ from_authorization_header(resp.request) # NoSign
  /\ from_query_params(resp.request) # NoSign
  /\ is_valid(from_query_params(resp.request), AuthConfig)

====
